---------------------------- MODULE Spec2Model ----------------------------
(***************************************************************************)
(* A model of the document indexing and hybrid retrieval pipeline:        *)
(*   - MilvusVector (api/core/rag/datasource/vdb/milvus/milvus_vector.py) *)
(*   - the text splitters (api/core/rag/splitter/fixed_text_splitter.py)  *)
(*   - ExternalIndexProcessor                                              *)
(*     (api/core/rag/index_processor/processor/external_index_processor.py)*)
(* Strings are sequences of one-character strings.  Each component has    *)
(* its own specification; the variables of the other components rest.     *)
(***************************************************************************)
EXTENDS Integers, Sequences, FiniteSets, TLC

VARIABLES
    \* ---- MilvusVector.add_texts and the store behind it
    insert_dict_list,   \* the records built from the documents of this call
    total_count,        \* len(insert_dict_list)
    ins_i,              \* the loop variable i of the batch loop
    pks,                \* the ids collected so far
    ins_status,         \* "idle" | "running" | "returned" | "raised"
    store,              \* the collection's records; the primary key is the position
    store0,             \* Len(store) when the current call started
    sent,               \* the batches handed to client.insert in this call
    batch_ids,          \* the ids the store returned, per accepted batch
    store_log,          \* the kinds of store calls issued in this call
    rejected_at,        \* the offset of the batch the store rejected, or -1
    ins_calls,          \* number of add_texts calls started
    \* ---- MilvusVector.search_by_vector
    sr_hits,            \* the store's ranking for the query: <<[id, distance], ...>>
    sr_kwargs,          \* the keyword arguments: top_k, score_threshold, vec_type
    sr_request,         \* the search request sent to the store: [anns_field, limit]
    sr_docs,            \* the documents returned: <<[id, score], ...>>
    sr_status,          \* "idle" | "returned"
    \* ---- MilvusVector.create_collection, Redis and the store's schema side
    cc_pc,              \* where each caller of create_collection stands
    lock_owner,         \* the caller whose token holds vector_indexing_lock_<name>, or 0
    cache_key,          \* whether vector_indexing_<name> is set in Redis
    collection_exists,  \* whether the store has the collection
    create_calls,       \* the client.create_collection calls issued so far
    store_faults,       \* the store calls that failed so far
    \* ---- the text splitters
    sp_text,            \* the text handed to split_text
    sp_cfg,             \* chunk_size, chunk_overlap, fixed_separator, separators
    sp_status,          \* "idle" | "returned" | "RecursionError"
    sp_chunks,          \* the chunks FixedRecursiveCharacterTextSplitter returned
    sp_recursed,        \* the pieces a merge pass handed to recursive_split_text
    \* ---- ExternalIndexProcessor
    ex_response,        \* the response of the last extract call's POST
    ex_result,          \* what the last extract call returned
    ex_document,        \* self.document
    ex_transformed,     \* what the last transform call returned
    ex_status,          \* "new" | "extracted" | "transformed"
    ex_calls,           \* the extract and transform calls made so far
    ex_argument,        \* the documents passed to the last transform call
    ex_posts,           \* the POST requests the last call sent
    \* ---- MarkdownTextSplitter
    md_text,            \* the text handed to split_text
    md_chunk_size,      \* self._chunk_size
    md_status,          \* "idle" | "returned"
    md_chunks,          \* the chunks MarkdownTextSplitter returned
    md_sources,         \* the subsections each of the chunks was built from
    \* ---- MilvusVector.delete_by_ids, delete_by_metadata_field, delete
    dl_exists,          \* whether the store has the collection
    dl_records,         \* the records of the collection: [pk, metadata]
    dl_before,          \* the records when the last delete call started
    dl_op,              \* the last delete call: [name, key, values, existed]
    dl_log,             \* the store calls the last delete call issued
    dl_calls,           \* the delete calls made so far
    \* ---- the index processors' load and clean
    ip_variant,         \* the processor class: "custom" | "external"
    ip_technique,       \* dataset.indexing_technique
    ip_op,              \* the last load or clean call and its arguments
    ip_log,             \* the calls the last call made on the vector store and the keyword index
    ip_status,          \* "idle" | "returned" | "raised"
    ip_calls,           \* the load and clean calls made so far
    \* ---- IndexProcessorFactory
    fa_index_type,      \* the index_type given to the factory
    fa_server_address,  \* config_options.get("server_address")
    fa_clean,           \* the clean argument: None, False or True
    fa_status,          \* "new" | "done"
    fa_result,          \* what init_index_processor did: [outcome, class]
    \* ---- split_text called again on a chunk it returned
    rs_splitter,        \* which splitter is called again: "recursive", "markdown", "none"
    rs_chunk,           \* the chunk it is given
    rs_status,          \* "idle", "returned", "RecursionError"
    rs_chunks,          \* the chunks it returns
    \* ---- create, add_texts and delete called one after another on one collection name
    lc_exists,          \* the collection is in the store
    lc_cache,           \* the Redis flag vector_indexing_<name> is set
    lc_log,             \* the calls made: what was called, whether the store was sent an insert, whether the collection was there then
    lc_creates,         \* the client.create_collection calls sent
    \* ---- the schema and the indexes create_collection declares
    sc_dim,             \* len(embeddings[0]), the dimension of the dense vectors
    sc_metadatas,       \* the metadatas argument
    sc_sparse,          \* the sparse_embeddings argument
    sc_status,          \* "idle", "created"
    sc_fields,          \* the names of the fields of the schema, in order
    sc_self_fields,     \* self._fields
    sc_indexes,         \* the field names the index parameters name, in order
    \* ---- one ExternalIndexProcessor used for several source documents
    tw_document,        \* self.document
    tw_returned,        \* per source document, what extract returned for it last
    tw_transformed,     \* per source document, what transform returned when given its documents
    \* ---- the sparse embeddings of one text
    se_groups,          \* emb["embedding"]["sparse"]: the term groups the service returned, each a mapping from index to weight
    se_status,          \* "idle", "embedded", "serialized"
    se_matrix,          \* the sparse matrix _get_sparse_embeddings built, one row per term group
    se_record           \* the sparse_vector entry add_texts sends to the store

insVars == <<insert_dict_list, total_count, ins_i, pks, ins_status, store, store0,
             sent, batch_ids, store_log, rejected_at, ins_calls>>

srVars == <<sr_hits, sr_kwargs, sr_request, sr_docs, sr_status>>

ccVars == <<cc_pc, lock_owner, cache_key, collection_exists, create_calls, store_faults>>

spVars == <<sp_text, sp_cfg, sp_status, sp_chunks, sp_recursed>>

exVars == <<ex_response, ex_result, ex_document, ex_transformed, ex_status, ex_calls,
            ex_argument, ex_posts>>

mdVars == <<md_text, md_chunk_size, md_status, md_chunks, md_sources>>

dlVars == <<dl_exists, dl_records, dl_before, dl_op, dl_log, dl_calls>>

ipVars == <<ip_variant, ip_technique, ip_op, ip_log, ip_status, ip_calls>>

faVars == <<fa_index_type, fa_server_address, fa_clean, fa_status, fa_result>>

rsVars == <<rs_splitter, rs_chunk, rs_status, rs_chunks>>

lcVars == <<lc_exists, lc_cache, lc_log, lc_creates>>

scVars == <<sc_dim, sc_metadatas, sc_sparse, sc_status, sc_fields, sc_self_fields, sc_indexes>>

twVars == <<tw_document, tw_returned, tw_transformed>>

seVars == <<se_groups, se_status, se_matrix, se_record>>

vars == <<insVars, srVars, ccVars, spVars, exVars, mdVars, dlVars, ipVars, faVars, rsVars, lcVars, scVars, twVars, seVars>>

\* What a component's actions leave alone: the other components.
notIns == <<srVars, ccVars, spVars, exVars, mdVars, dlVars, ipVars, faVars, rsVars, lcVars, scVars, twVars, seVars>>
notSr == <<insVars, ccVars, spVars, exVars, mdVars, dlVars, ipVars, faVars, rsVars, lcVars, scVars, twVars, seVars>>
notCc == <<insVars, srVars, spVars, exVars, mdVars, dlVars, ipVars, faVars, rsVars, lcVars, scVars, twVars, seVars>>
notSp == <<insVars, srVars, ccVars, exVars, mdVars, dlVars, ipVars, faVars, rsVars, lcVars, scVars, twVars, seVars>>
notEx == <<insVars, srVars, ccVars, spVars, mdVars, dlVars, ipVars, faVars, rsVars, lcVars, scVars, twVars, seVars>>
notMd == <<insVars, srVars, ccVars, spVars, exVars, dlVars, ipVars, faVars, rsVars, lcVars, scVars, twVars, seVars>>
notDl == <<insVars, srVars, ccVars, spVars, exVars, mdVars, ipVars, faVars, rsVars, lcVars, scVars, twVars, seVars>>
notIp == <<insVars, srVars, ccVars, spVars, exVars, mdVars, dlVars, faVars, rsVars, lcVars, scVars, twVars, seVars>>
notFa == <<insVars, srVars, ccVars, spVars, exVars, mdVars, dlVars, ipVars, rsVars, lcVars, scVars, twVars, seVars>>
notRs == <<insVars, srVars, ccVars, spVars, exVars, mdVars, dlVars, ipVars, faVars, lcVars, scVars, twVars, seVars>>
notLc == <<insVars, srVars, ccVars, spVars, exVars, mdVars, dlVars, ipVars, faVars, rsVars, scVars, twVars, seVars>>
notSc == <<insVars, srVars, ccVars, spVars, exVars, mdVars, dlVars, ipVars, faVars, rsVars, lcVars, twVars, seVars>>
notTw == <<insVars, srVars, ccVars, spVars, exVars, mdVars, dlVars, ipVars, faVars, rsVars, lcVars, scVars, seVars>>
notSe == <<insVars, srVars, ccVars, spVars, exVars, mdVars, dlVars, ipVars, faVars, rsVars, lcVars, scVars, twVars>>

------------------------------------------------------------------------------
(* Generic helpers *)

Min(a, b) == IF a < b THEN a ELSE b

RECURSIVE Concat(_)
Concat(ss) == IF ss = <<>> THEN <<>> ELSE Head(ss) \o Concat(Tail(ss))

\* An optional argument of a call (a key of kwargs, a field of a dict): the key
\* is absent, or bound to None, or bound to a number or to a string.
Absent == [tag |-> "absent", val |-> 0, str |-> ""]
NoneArg == [tag |-> "None", val |-> 0, str |-> ""]
Num(x) == [tag |-> "num", val |-> x, str |-> ""]
Str(x) == [tag |-> "str", val |-> 0, str |-> x]

\* Python's l[a:b] for 0 <= a, on a sequence (0-based, end exclusive, clipped).
Slice(l, a, b) == SubSeq(l, a + 1, Min(b, Len(l)))

------------------------------------------------------------------------------
(* Strings: sequences of one-character strings *)

NL == "\n"
SP == " "
NLNL == <<NL, NL>>

\* Whether s occurs in t at position p (1-based).
OccursAt(t, p, s) ==
    /\ p >= 1
    /\ p + Len(s) - 1 <= Len(t)
    /\ \A k \in 1..Len(s) : t[p + k - 1] = s[k]

\* Python's `s in t`.
Contains(t, s) == \E p \in 1..(Len(t) - Len(s) + 1) : OccursAt(t, p, s)

\* Python's t.find(s) + 1 for a non-empty s that occurs in t.
FirstOccurrence(t, s) ==
    CHOOSE p \in 1..(Len(t) - Len(s) + 1) :
        /\ OccursAt(t, p, s)
        /\ \A q \in 1..(p - 1) : ~OccursAt(t, q, s)

\* Python's t.split(sep) for a non-empty sep.
RECURSIVE SplitOn(_, _)
SplitOn(t, sep) ==
    IF ~Contains(t, sep) THEN <<t>>
    ELSE LET p == FirstOccurrence(t, sep)
         IN <<SubSeq(t, 1, p - 1)>> \o SplitOn(SubSeq(t, p + Len(sep), Len(t)), sep)

\* Python's list(t).
Chars(t) == [k \in 1..Len(t) |-> <<t[k]>>]

\* Python's sep.join(pieces).
RECURSIVE Join(_, _)
Join(pieces, sep) ==
    IF pieces = <<>> THEN <<>>
    ELSE IF Len(pieces) = 1 THEN pieces[1]
    ELSE pieces[1] \o sep \o Join(Tail(pieces), sep)

------------------------------------------------------------------------------
(* The state of a component no call has touched yet *)

InsertIdle ==
    /\ insert_dict_list = <<>>
    /\ total_count = 0
    /\ ins_i = 0
    /\ pks = <<>>
    /\ ins_status = "idle"
    /\ store = <<>>
    /\ store0 = 0
    /\ sent = <<>>
    /\ batch_ids = <<>>
    /\ store_log = <<>>
    /\ rejected_at = -1
    /\ ins_calls = 0

SearchIdle ==
    /\ sr_hits = <<>>
    /\ sr_kwargs = [top_k |-> Absent, score_threshold |-> Absent, vec_type |-> Absent]
    /\ sr_request = [anns_field |-> "", limit |-> 0]
    /\ sr_docs = <<>>
    /\ sr_status = "idle"

BootstrapIdle ==
    /\ cc_pc = <<>>
    /\ lock_owner = 0
    /\ cache_key = FALSE
    /\ collection_exists = FALSE
    /\ create_calls = 0
    /\ store_faults = 0

SplitterIdle ==
    /\ sp_text = <<>>
    /\ sp_cfg = [chunk_size |-> 1, chunk_overlap |-> 0, fixed_separator |-> <<>>,
                 separators |-> <<>>]
    /\ sp_status = "idle"
    /\ sp_chunks = <<>>
    /\ sp_recursed = {}

\* Python values: None, or a list of documents.
NoneValue == [tag |-> "None", docs |-> <<>>]
ListValue(l) == [tag |-> "list", docs |-> l]

\* A response that carries nothing: {}.
EmptyResponse ==
    [has_data |-> FALSE, has_outputs |-> FALSE, other_outputs |-> FALSE,
     has_result |-> FALSE, has_documents |-> FALSE, documents |-> <<>>]

\* ExternalIndexProcessor.__init__: self.document = None
ExternalIdle ==
    /\ ex_response = EmptyResponse
    /\ ex_result = NoneValue
    /\ ex_document = NoneValue
    /\ ex_transformed = NoneValue
    /\ ex_status = "new"
    /\ ex_calls = 0
    /\ ex_argument = <<>>
    /\ ex_posts = 0

MarkdownIdle ==
    /\ md_text = <<>>
    /\ md_chunk_size = 1
    /\ md_status = "idle"
    /\ md_chunks = <<>>
    /\ md_sources = <<>>

DeleteIdle ==
    /\ dl_exists = FALSE
    /\ dl_records = {}
    /\ dl_before = {}
    /\ dl_op = [name |-> "none", key |-> "", values |-> {}, existed |-> FALSE]
    /\ dl_log = <<>>
    /\ dl_calls = 0

\* An optional list argument: None (or not passed), or a list.
NoList == [tag |-> "None", items |-> <<>>]
SomeList(l) == [tag |-> "list", items |-> l]

ProcessorIdle ==
    /\ ip_variant = "custom"
    /\ ip_technique = "economy"
    /\ ip_op = [name |-> "none", node_ids |-> NoList, with_keywords |-> FALSE,
                keywords_list |-> NoList, vector_fails |-> FALSE, keyword_fails |-> FALSE]
    /\ ip_log = <<>>
    /\ ip_status = "idle"
    /\ ip_calls = 0

FactoryIdle ==
    /\ fa_index_type = NoneArg
    /\ fa_server_address = Absent
    /\ fa_clean = "None"
    /\ fa_status = "new"
    /\ fa_result = [outcome |-> "none", class |-> "none"]

ResplitIdle ==
    /\ rs_splitter = "none"
    /\ rs_chunk = <<>>
    /\ rs_status = "idle"
    /\ rs_chunks = <<>>

LifecycleIdle ==
    /\ lc_exists = FALSE
    /\ lc_cache = FALSE
    /\ lc_log = <<>>
    /\ lc_creates = 0

SchemaIdle ==
    /\ sc_dim = 1
    /\ sc_metadatas = NoList
    /\ sc_sparse = NoList
    /\ sc_status = "idle"
    /\ sc_fields = <<>>
    /\ sc_self_fields = <<>>
    /\ sc_indexes = <<>>

SharedIdle ==
    /\ tw_document = NoneValue
    /\ tw_returned = <<>>
    /\ tw_transformed = <<>>

SparseIdle ==
    /\ se_groups = <<>>
    /\ se_status = "idle"
    /\ se_matrix = <<>>
    /\ se_record = <<>>

------------------------------------------------------------------------------
(* MilvusVector.create_collection *)

\* Bound: the callers that bootstrap the same collection name.
NumCallers == 3

Callers == 1..NumCallers

BootstrapInit ==
    /\ cc_pc = [c \in Callers |-> "idle"]
    /\ lock_owner = 0
    /\ cache_key = FALSE
    /\ collection_exists = FALSE
    /\ create_calls = 0
    /\ store_faults = 0
    /\ InsertIdle
    /\ SearchIdle
    /\ SplitterIdle
    /\ ExternalIdle
    /\ MarkdownIdle
    /\ DeleteIdle
    /\ ProcessorIdle
    /\ FactoryIdle
    /\ ResplitIdle
    /\ LifecycleIdle
    /\ SchemaIdle
    /\ SharedIdle
    /\ SparseIdle

\* A caller enters create_collection and asks for the lock; lock() is given
\* no blocking_timeout, so the caller waits until it gets the lock.
CallCreateCollection(c) ==
    /\ cc_pc[c] = "idle"
    /\ cc_pc' = [cc_pc EXCEPT ![c] = "wait_lock"]
    /\ UNCHANGED <<lock_owner, cache_key, collection_exists, create_calls, store_faults>>
    /\ UNCHANGED notCc

\* with redis_client.lock(lock_name, timeout=20): the lock is free and taken.
AcquireLock(c) ==
    /\ cc_pc[c] = "wait_lock"
    /\ lock_owner = 0
    /\ lock_owner' = c
    /\ cc_pc' = [cc_pc EXCEPT ![c] = "check_cache"]
    /\ UNCHANGED <<cache_key, collection_exists, create_calls, store_faults>>
    /\ UNCHANGED notCc

\* A lock key without a life: it stays until its holder releases it.
LockNeverExpires ==
    /\ lock_owner # 0
    /\ UNCHANGED <<cc_pc, lock_owner, cache_key, collection_exists, create_calls, store_faults>>
    /\ UNCHANGED notCc

\* timeout=20 is the life of the lock key: 20 seconds after it was taken
\* Redis drops it, whatever its holder is doing.
LockExpire ==
    /\ lock_owner # 0
    /\ lock_owner' = 0
    /\ UNCHANGED <<cc_pc, cache_key, collection_exists, create_calls, store_faults>>
    /\ UNCHANGED notCc

\* redis_client.set(key, 1, ex=3600): the flag is dropped after an hour.
CacheExpire ==
    /\ cache_key
    /\ cache_key' = FALSE
    /\ UNCHANGED <<cc_pc, lock_owner, collection_exists, create_calls, store_faults>>
    /\ UNCHANGED notCc

\* if redis_client.get(collection_exist_cache_key): return
CheckCache(c) ==
    /\ cc_pc[c] = "check_cache"
    /\ cc_pc' = [cc_pc EXCEPT ![c] = IF cache_key THEN "release" ELSE "has_collection"]
    /\ UNCHANGED <<lock_owner, cache_key, collection_exists, create_calls, store_faults>>
    /\ UNCHANGED notCc

\* if not self._client.has_collection(self._collection_name):
HasCollection(c) ==
    /\ cc_pc[c] = "has_collection"
    /\ cc_pc' = [cc_pc EXCEPT ![c] = IF collection_exists THEN "set_cache" ELSE "create"]
    /\ UNCHANGED <<lock_owner, cache_key, collection_exists, create_calls, store_faults>>
    /\ UNCHANGED notCc

\* has_collection raises: the exception leaves the with block.
HasCollectionFails(c) ==
    /\ cc_pc[c] = "has_collection"
    /\ store_faults' = store_faults + 1
    /\ cc_pc' = [cc_pc EXCEPT ![c] = "release_exc"]
    /\ UNCHANGED <<lock_owner, cache_key, collection_exists, create_calls>>
    /\ UNCHANGED notCc

\* The schema and the index parameters are built and client.create_collection
\* is sent to the store.
IssueCreate(c) ==
    /\ cc_pc[c] = "create"
    /\ create_calls' = create_calls + 1
    /\ cc_pc' = [cc_pc EXCEPT ![c] = "creating"]
    /\ UNCHANGED <<lock_owner, cache_key, collection_exists, store_faults>>
    /\ UNCHANGED notCc

\* The store answers the create call: the collection is there.
CreateCompleted(c) ==
    /\ cc_pc[c] = "creating"
    /\ collection_exists' = TRUE
    /\ cc_pc' = [cc_pc EXCEPT ![c] = "set_cache"]
    /\ UNCHANGED <<lock_owner, cache_key, create_calls, store_faults>>
    /\ UNCHANGED notCc

\* A failed create call taken for a success: the caller goes on to set the flag.
CreateFailsFlagSet(c) ==
    /\ cc_pc[c] = "creating"
    /\ store_faults' = store_faults + 1
    /\ cc_pc' = [cc_pc EXCEPT ![c] = "set_cache"]
    /\ UNCHANGED <<lock_owner, cache_key, collection_exists, create_calls>>
    /\ UNCHANGED notCc

\* The store fails the create call: the exception leaves the with block.
CreateFails(c) ==
    /\ cc_pc[c] = "creating"
    /\ store_faults' = store_faults + 1
    /\ cc_pc' = [cc_pc EXCEPT ![c] = "release_exc"]
    /\ UNCHANGED <<lock_owner, cache_key, collection_exists, create_calls>>
    /\ UNCHANGED notCc

\* redis_client.set(collection_exist_cache_key, 1, ex=3600)
SetCache(c) ==
    /\ cc_pc[c] = "set_cache"
    /\ cache_key' = TRUE
    /\ cc_pc' = [cc_pc EXCEPT ![c] = "release"]
    /\ UNCHANGED <<lock_owner, collection_exists, create_calls, store_faults>>
    /\ UNCHANGED notCc

\* The with block is left: the lock is released when the caller's token still
\* holds it; releasing a lock that expired, or that another caller took since,
\* raises LockNotOwnedError.  An exception on its way out goes on to the caller.
ReleaseLock(c) ==
    /\ cc_pc[c] \in {"release", "release_exc"}
    /\ lock_owner' = IF lock_owner = c THEN 0 ELSE lock_owner
    /\ cc_pc' = [cc_pc EXCEPT ![c] =
                    IF cc_pc[c] = "release" /\ lock_owner = c THEN "returned" ELSE "raised"]
    /\ UNCHANGED <<cache_key, collection_exists, create_calls, store_faults>>
    /\ UNCHANGED notCc

BootstrapNext ==
    \/ \E c \in Callers : CallCreateCollection(c)
    \/ \E c \in Callers : AcquireLock(c)
    \/ \E c \in Callers : CheckCache(c)
    \/ \E c \in Callers : HasCollection(c)
    \/ \E c \in Callers : HasCollectionFails(c)
    \/ \E c \in Callers : IssueCreate(c)
    \/ \E c \in Callers : CreateCompleted(c)
    \/ \E c \in Callers : CreateFails(c)
    \/ \E c \in Callers : SetCache(c)
    \/ \E c \in Callers : ReleaseLock(c)
    \/ LockExpire
    \/ CacheExpire

SpecBootstrap == BootstrapInit /\ [][BootstrapNext]_vars

(* Claims about create_collection *)

AllCallersDone == \A c \in Callers : cc_pc[c] \in {"returned", "raised"}

\* C1: when N callers bootstrap a collection that does not exist yet and no
\* store call fails, at most one client.create_collection call is ever issued,
\* a caller that has returned finds the collection in the store, and once all
\* callers are through exactly one create call was issued and all of them
\* returned normally.
C1_ExactlyOneCreate ==
    store_faults = 0 =>
        /\ create_calls <= 1
        /\ \A c \in Callers : cc_pc[c] = "returned" => collection_exists
        /\ AllCallersDone =>
              /\ create_calls = 1
              /\ \A c \in Callers : cc_pc[c] = "returned"

\* Redis drops a lock key whose life is over, and a caller blocked in the
\* lock's acquire loop retries until it gets the lock. Nothing is assumed of
\* a caller inside the with block: it may stop there for good.
BootstrapFairness ==
    /\ WF_vars(LockExpire)
    /\ \A c \in Callers : WF_vars(AcquireLock(c))

SpecBootstrapLive == SpecBootstrap /\ BootstrapFairness

\* The states of a caller inside the with block.
InsideLock == {"check_cache", "has_collection", "create", "creating", "set_cache"}

\* C11: no caller of create_collection waits for the lock forever: a caller
\* that waits eventually enters the critical section (or fails), also when
\* the holder of the lock stops inside the with block and never releases it.
C11_LockWaitEnds ==
    \A c \in Callers : (cc_pc[c] = "wait_lock") ~> (cc_pc[c] # "wait_lock")

\* A caller is in the critical section while an earlier holder, whose lock
\* ran out, is still inside the with block.
C11_Witness ==
    \E c, h \in Callers :
        /\ c # h
        /\ lock_owner = c
        /\ cc_pc[c] \in InsideLock
        /\ cc_pc[h] \in InsideLock

\* A step of caller c on which a store call of it fails.
StoreCallFails(c) ==
    /\ cc_pc[c] \in {"has_collection", "creating"}
    /\ cc_pc'[c] = "release_exc"

\* A step on which caller c leaves create_collection with the exception.
LeavesWithException(c) ==
    /\ cc_pc[c] = "release_exc"
    /\ cc_pc'[c] # "release_exc"

\* C25: when has_collection or client.create_collection fails inside
\* create_collection, the exception goes to the caller, the caller no longer
\* holds the lock, and the flag is left as it was; the flag is never set
\* while the store has no collection, so the next caller does not return at
\* the flag but asks the store and creates.
C25_FailureLeavesFlagUnset ==
    /\ [](cache_key => collection_exists)
    /\ [][\A c \in Callers :
             /\ StoreCallFails(c) => cache_key' = cache_key
             /\ LeavesWithException(c) =>
                   /\ cc_pc'[c] = "raised"
                   /\ lock_owner' # c
                   /\ cache_key' = cache_key]_vars

\* A create call failed, its caller got the exception and the lock is free;
\* the flag is unset, and a later caller has sent a create call of its own.
C25_Witness ==
    \E c, d \in Callers :
        /\ c # d
        /\ cc_pc[c] = "raised"
        /\ store_faults = 1
        /\ create_calls = 2
        /\ cc_pc[d] = "creating"
        /\ lock_owner = d
        /\ ~cache_key
        /\ ~collection_exists

------------------------------------------------------------------------------
(* MilvusVector.search_by_vector *)

\* limit=kwargs.get("top_k", 4)
DefaultTopK == 4

\* Bounds of the search model: the hits the store ranks, the distances
\* (scores in tenths, so 9 stands for 0.9) and the top_k values tried.
MaxHits == 5
MaxDistance == 2
MaxTopK == 2

Distances == (-1)..MaxDistance

ThresholdArgs == {Absent, NoneArg} \cup { Num(d) : d \in Distances }
TopKArgs == {Absent} \cup { Num(k) : k \in 1..MaxTopK }

\* The store ranks by inner product: the distances never increase down the list.
Rankings ==
    UNION { { h \in [1..n -> Distances] : \A i \in 1..(n - 1) : h[i] >= h[i + 1] }
            : n \in 0..MaxHits }

\* limit=kwargs.get("top_k", 4)
SearchLimit(kw) == IF kw.top_k.tag = "absent" THEN DefaultTopK ELSE kw.top_k.val

\* anns_field=... if kwargs.get("vec_type") == "sparse" else ...
AnnsField(kw) == IF kw.vec_type = Str("sparse") THEN "sparse_vector" ELSE "vector"

\* client.search: the first `limit` entries of the store's ranking.
StoreSearch(hits, limit) == SubSeq(hits, 1, Min(limit, Len(hits)))

\* score_threshold = float(kwargs.get("score_threshold") or 0.0)
ScoreThreshold(kw) ==
    IF kw.score_threshold.tag \in {"absent", "None"} \/ kw.score_threshold.val = 0
    THEN 0
    ELSE kw.score_threshold.val

PassesThresholdInclusive(distance, threshold) == distance >= threshold
\* if result["distance"] > score_threshold:
PassesThreshold(distance, threshold) == distance > threshold

\* The loop over results[0]: metadata["score"] = distance, and the record is
\* kept when it passes the threshold.
RECURSIVE OrganizeResults(_, _)
OrganizeResults(results, kw) ==
    IF results = <<>> THEN <<>>
    ELSE LET result == Head(results)
             rest == OrganizeResults(Tail(results), kw)
         IN IF PassesThreshold(result.distance, ScoreThreshold(kw))
            THEN <<[id |-> result.id, score |-> result.distance]>> \o rest
            ELSE rest

SearchInit ==
    /\ \E h \in Rankings : sr_hits = [i \in 1..Len(h) |-> [id |-> i, distance |-> h[i]]]
    /\ \E t \in TopKArgs, th \in ThresholdArgs, v \in {Absent, Str("sparse")} :
          sr_kwargs = [top_k |-> t, score_threshold |-> th, vec_type |-> v]
    /\ sr_request = [anns_field |-> "", limit |-> 0]
    /\ sr_docs = <<>>
    /\ sr_status = "idle"
    /\ InsertIdle
    /\ BootstrapIdle
    /\ SplitterIdle
    /\ ExternalIdle
    /\ MarkdownIdle
    /\ DeleteIdle
    /\ ProcessorIdle
    /\ FactoryIdle
    /\ ResplitIdle
    /\ LifecycleIdle
    /\ SchemaIdle
    /\ SharedIdle
    /\ SparseIdle

SearchByVector ==
    /\ sr_status = "idle"
    /\ sr_request' = [anns_field |-> AnnsField(sr_kwargs), limit |-> SearchLimit(sr_kwargs)]
    /\ sr_docs' = OrganizeResults(StoreSearch(sr_hits, SearchLimit(sr_kwargs)), sr_kwargs)
    /\ sr_status' = "returned"
    /\ UNCHANGED <<sr_hits, sr_kwargs>>
    /\ UNCHANGED notSr

SearchNext == SearchByVector

SpecSearch == SearchInit /\ [][SearchNext]_vars

(* Claims about search_by_vector *)

\* C4: every document search_by_vector returns has a distance strictly above
\* the threshold, which is 0 when score_threshold is absent, None or 0; the
\* documents come in the store's ranking order and are at most top_k.
C4_StrictThreshold ==
    sr_status = "returned" =>
        LET th == sr_kwargs.score_threshold
            threshold == IF th.tag \in {"absent", "None"} THEN 0 ELSE th.val
        IN /\ \A i \in 1..Len(sr_docs) :
                 /\ sr_docs[i].score > threshold
                 /\ sr_docs[i].id \in 1..Len(sr_hits)
                 /\ sr_docs[i].score = sr_hits[sr_docs[i].id].distance
           /\ \A i \in 1..(Len(sr_docs) - 1) : sr_docs[i].id < sr_docs[i + 1].id
           /\ Len(sr_docs) <= (IF sr_kwargs.top_k = Absent THEN 4 ELSE sr_kwargs.top_k.val)

\* A hit whose distance equals a nonzero threshold was dropped, another kept.
C4_Witness ==
    /\ sr_status = "returned"
    /\ sr_kwargs.score_threshold = Num(1)
    /\ Len(sr_hits) >= 2
    /\ sr_hits[1].distance = 2
    /\ sr_hits[2].distance = 1
    /\ sr_kwargs.top_k = Num(2)
    /\ Len(sr_docs) = 1

------------------------------------------------------------------------------
(* MilvusVector.add_texts *)

\* The batch size of the insert loop.
BatchSize == 1000

\* Bounds of the insert model.
MaxBatches == 3
MaxInsertCalls == 1

InsertSizes ==
    {0, 1, 2} \cup
    { k * BatchSize + d : k \in 1..(MaxBatches - 1), d \in {-2, -1, 0, 1, 2, 500} }

\* insert_dict_list: one record per document, in document order.  Record k
\* stands for {content, vector, metadata} of documents[k].
BuildInsertList(n) == [k \in 1..n |-> k]

BatchSliceShort(l, i) == Slice(l, i, i + BatchSize - 1)
\* batch_insert_list = insert_dict_list[i: i + 1000]
BatchSlice(l, i) == Slice(l, i, i + BatchSize)

\* The primary keys the store assigns to a batch appended to its records.
AssignedIds(st, batch) == [k \in 1..Len(batch) |-> Len(st) + k]

\* add_texts is called: the records are built, and the loop starts; with no
\* record the loop body never runs and the call returns the empty id list.
AddTextsCall(n) ==
    /\ ins_status \in {"idle", "returned", "raised"}
    /\ ins_calls < MaxInsertCalls
    /\ ins_calls' = ins_calls + 1
    /\ insert_dict_list' = BuildInsertList(n)
    /\ total_count' = n
    /\ ins_i' = 0
    /\ pks' = <<>>
    /\ sent' = <<>>
    /\ batch_ids' = <<>>
    /\ store_log' = <<>>
    /\ rejected_at' = -1
    /\ store0' = Len(store)
    /\ ins_status' = IF 0 < n THEN "running" ELSE "returned"
    /\ UNCHANGED store
    /\ UNCHANGED notIns

\* One iteration of the loop whose client.insert succeeds.
InsertAccepted ==
    /\ ins_status = "running"
    /\ ins_i < total_count
    /\ LET batch == BatchSlice(insert_dict_list, ins_i)
           ids == AssignedIds(store, batch)
       IN /\ sent' = Append(sent, batch)
          /\ store_log' = Append(store_log, "insert")
          /\ store' = store \o batch
          /\ batch_ids' = Append(batch_ids, ids)
          /\ pks' = pks \o ids
    /\ ins_i' = ins_i + BatchSize
    /\ ins_status' = IF ins_i + BatchSize < total_count THEN "running" ELSE "returned"
    /\ UNCHANGED <<insert_dict_list, total_count, store0, rejected_at, ins_calls>>
    /\ UNCHANGED notIns

\* A mutant: the exception of a rejected batch is logged and the loop goes on.
InsertRejectedSwallowed ==
    /\ ins_status = "running"
    /\ ins_i < total_count
    /\ sent' = Append(sent, BatchSlice(insert_dict_list, ins_i))
    /\ store_log' = Append(store_log, "insert")
    /\ rejected_at' = IF rejected_at = -1 THEN ins_i ELSE rejected_at
    /\ ins_i' = ins_i + BatchSize
    /\ ins_status' = IF ins_i + BatchSize < total_count THEN "running" ELSE "returned"
    /\ UNCHANGED <<insert_dict_list, total_count, pks, store, store0, batch_ids, ins_calls>>
    /\ UNCHANGED notIns

\* One iteration of the loop whose client.insert raises: the exception is
\* logged and raised again, which ends the call.
InsertRejected ==
    /\ ins_status = "running"
    /\ ins_i < total_count
    /\ sent' = Append(sent, BatchSlice(insert_dict_list, ins_i))
    /\ store_log' = Append(store_log, "insert")
    /\ rejected_at' = ins_i
    /\ ins_status' = "raised"
    /\ UNCHANGED <<insert_dict_list, total_count, ins_i, pks, store, store0,
                   batch_ids, ins_calls>>
    /\ UNCHANGED notIns

InsertNext ==
    \/ \E n \in InsertSizes : AddTextsCall(n)
    \/ InsertAccepted
    \/ InsertRejected

\* The collection may already hold records of earlier calls (record 0 stands
\* for any of them).
InsertInit ==
    /\ \E m \in {0, 3, BatchSize} : store = [k \in 1..m |-> 0]
    /\ store0 = Len(store)
    /\ insert_dict_list = <<>>
    /\ total_count = 0
    /\ ins_i = 0
    /\ pks = <<>>
    /\ ins_status = "idle"
    /\ sent = <<>>
    /\ batch_ids = <<>>
    /\ store_log = <<>>
    /\ rejected_at = -1
    /\ ins_calls = 0
    /\ SearchIdle
    /\ BootstrapIdle
    /\ SplitterIdle
    /\ ExternalIdle
    /\ MarkdownIdle
    /\ DeleteIdle
    /\ ProcessorIdle
    /\ FactoryIdle
    /\ ResplitIdle
    /\ LifecycleIdle
    /\ SchemaIdle
    /\ SharedIdle
    /\ SparseIdle

SpecInsert == InsertInit /\ [][InsertNext]_vars

(* Claims about add_texts *)

\* C2: once the store has rejected batch k of an add_texts call, the call has
\* raised; the records committed by this call are exactly the batches before
\* k; the rejected batch is the last one sent; and the only store calls the
\* call issued are inserts (no delete, no compensating call).
C2_RejectedBatchAborts ==
    rejected_at # -1 =>
        /\ ins_status = "raised"
        /\ SubSeq(store, store0 + 1, Len(store)) = SubSeq(insert_dict_list, 1, rejected_at)
        /\ Len(sent) = (rejected_at \div BatchSize) + 1
        /\ \A j \in 1..Len(store_log) : store_log[j] = "insert"

\* The second batch of 2500 records was rejected: the first 1000 are committed.
C2_Witness ==
    /\ total_count = 2500
    /\ rejected_at = BatchSize
    /\ ins_status = "raised"
    /\ Len(store) - store0 = BatchSize

\* C3: an add_texts call on n records that returned has issued ceil(n/1000)
\* inserts; batch j (0-based) carries records 1000*j .. min(1000*(j+1), n)-1
\* in document order; every record is sent exactly once; every batch but the
\* last has 1000 records; the returned ids are the per-batch ids in order.
C3_BatchesPartitionRecords ==
    ins_status = "returned" =>
        /\ Len(sent) = (total_count + BatchSize - 1) \div BatchSize
        /\ \A j \in 0..(Len(sent) - 1) :
              sent[j + 1] = [k \in 1..(Min(BatchSize * (j + 1), total_count) - BatchSize * j)
                               |-> insert_dict_list[BatchSize * j + k]]
        /\ Concat(sent) = insert_dict_list
        /\ \A j \in 1..(Len(sent) - 1) : Len(sent[j]) = BatchSize
        /\ pks = Concat(batch_ids)
        /\ Len(pks) = total_count

\* 2500 records went out as batches of 1000, 1000 and 500.
C3_Witness ==
    /\ ins_status = "returned"
    /\ total_count = 2500
    /\ Len(sent) = 3
    /\ Len(sent[1]) = 1000 /\ Len(sent[2]) = 1000 /\ Len(sent[3]) = 500

------------------------------------------------------------------------------
(* FixedRecursiveCharacterTextSplitter *)

\* Bounds of the splitter model: the length of the texts, the chunk sizes,
\* and the depth at which the interpreter gives up a recursion (Python raises
\* RecursionError; a recursion that ends at all ends within one level per
\* separator, so any limit above that tells the two apart).
MaxLen == 4
MaxChunkSize == 3
RecursionLimit == 6

SplitAlphabet == {"a", "b", SP, NL}

SplitTexts == UNION { [1..n -> SplitAlphabet] : n \in 0..MaxLen }

\* separators or ["\n\n", "\n", " ", ""], and two lists a caller may pass.
DefaultSeparators == <<NLNL, <<NL>>, <<SP>>, <<>>>>
SeparatorLists == {DefaultSeparators, <<NLNL, <<SP>>, <<>>>>, <<<<SP>>>>}

\* fixed_separator: "\n\n" by default, or none.
FixedSeparators == {NLNL, <<>>}

SplitConfigs ==
    { [chunk_size |-> cs, chunk_overlap |-> ov, fixed_separator |-> fs, separators |-> seps] :
        cs \in 1..MaxChunkSize, ov \in 0..1, fs \in FixedSeparators, seps \in SeparatorLists }

\* self._length_function: the number of characters.
LengthFunction(t) == Len(t)

\* The result of a call: the chunks, or the RecursionError that ended it.
Returned(chunks) == [ok |-> TRUE, chunks |-> chunks]
RecursionError == [ok |-> FALSE, chunks |-> <<>>]

\* _merge_splits of the base splitter: pieces are packed into a buffer while
\* its length, the separators between the pieces included, stays within
\* chunk_size; a full buffer is flushed as one chunk, and the next buffer starts
\* with the trailing pieces of the flushed one whose length is within
\* chunk_overlap (and that leave room for the next piece).
RECURSIVE CarryBack(_, _, _, _, _)
CarryBack(current, total, len, sepLen, cfg) ==
    IF /\ current # <<>>
       /\ \/ total > cfg.chunk_overlap
          \/ total + len + sepLen > cfg.chunk_size
    THEN CarryBack(Tail(current),
                   total - (LengthFunction(current[1]) + (IF Len(current) > 1 THEN sepLen ELSE 0)),
                   len, sepLen, cfg)
    ELSE [current |-> current, total |-> total]

RECURSIVE MergeFrom(_, _, _, _, _, _)
MergeFrom(splits, k, separator, cfg, current, total) ==
    IF k > Len(splits)
    THEN IF current = <<>> THEN <<>> ELSE <<Join(current, separator)>>
    ELSE LET d == splits[k]
             len == LengthFunction(d)
             sepLen == LengthFunction(separator)
             full == /\ current # <<>>
                     /\ total + len + sepLen > cfg.chunk_size
             kept == IF full THEN CarryBack(current, total, len, sepLen, cfg)
                     ELSE [current |-> current, total |-> total]
             flushed == IF full THEN <<Join(current, separator)>> ELSE <<>>
         IN flushed \o
            MergeFrom(splits, k + 1, separator, cfg, Append(kept.current, d),
                      kept.total + len + (IF kept.current # <<>> THEN sepLen ELSE 0))

MergeSplits(splits, separator, cfg) == MergeFrom(splits, 1, separator, cfg, <<>>, 0)

\* The separator loop of recursive_split_text: the last separator unless an
\* earlier one is "" or occurs in the text.
RECURSIVE PickSeparator(_, _, _)
PickSeparator(text, separators, k) ==
    IF k > Len(separators) THEN separators[Len(separators)]
    ELSE IF separators[k] = <<>> THEN <<>>
    ELSE IF Contains(text, separators[k]) THEN separators[k]
    ELSE PickSeparator(text, separators, k + 1)

\* if separator: splits = text.split(separator) else: splits = list(text)
SplitsOf(text, separator) ==
    IF separator # <<>> THEN SplitOn(text, separator) ELSE Chars(text)

\* if s_len < self._chunk_size:
IsGoodSplit(s_len, cfg) == s_len < cfg.chunk_size

FlushGoodSplitsNever(good, separator, cfg) == <<>>
\* if _good_splits: final_chunks.extend(self._merge_splits(...))
FlushGoodSplits(good, separator, cfg) ==
    IF good # <<>> THEN MergeSplits(good, separator, cfg) ELSE <<>>

RECURSIVE RecursiveSplitText(_, _, _)
RECURSIVE MergePass(_, _, _, _, _, _)

\* The loop over splits of recursive_split_text, from split k on, with the
\* good splits gathered so far.
MergePass(splits, k, good, separator, cfg, depth) ==
    IF k > Len(splits)
    THEN Returned(FlushGoodSplits(good, separator, cfg))
    ELSE LET s == splits[k]
         IN IF IsGoodSplit(LengthFunction(s), cfg)
            THEN MergePass(splits, k + 1, Append(good, s), separator, cfg, depth)
            ELSE LET other_info == RecursiveSplitText(s, cfg, depth + 1)
                 IN IF ~other_info.ok THEN RecursionError
                    ELSE LET rest == MergePass(splits, k + 1, <<>>, separator, cfg, depth)
                         IN IF ~rest.ok THEN RecursionError
                            ELSE Returned(FlushGoodSplits(good, separator, cfg)
                                          \o other_info.chunks \o rest.chunks)

RecursiveSplitText(text, cfg, depth) ==
    IF depth > RecursionLimit THEN RecursionError
    ELSE LET separator == PickSeparator(text, cfg.separators, 1)
         IN MergePass(SplitsOf(text, separator), 1, <<>>, separator, cfg, depth)

NeedsRecursiveSplitLate(chunk, cfg) == LengthFunction(chunk) > cfg.chunk_size + 1
\* if self._length_function(chunk) > self._chunk_size:
NeedsRecursiveSplit(chunk, cfg) == LengthFunction(chunk) > cfg.chunk_size

\* The loop over chunks of split_text.
RECURSIVE SplitChunks(_, _, _)
SplitChunks(chunks, k, cfg) ==
    IF k > Len(chunks) THEN Returned(<<>>)
    ELSE LET head == IF NeedsRecursiveSplit(chunks[k], cfg)
                     THEN RecursiveSplitText(chunks[k], cfg, 1)
                     ELSE Returned(<<chunks[k]>>)
         IN IF ~head.ok THEN RecursionError
            ELSE LET rest == SplitChunks(chunks, k + 1, cfg)
                 IN IF ~rest.ok THEN RecursionError
                    ELSE Returned(head.chunks \o rest.chunks)

\* FixedRecursiveCharacterTextSplitter.split_text
SplitText(text, cfg) ==
    SplitChunks(IF cfg.fixed_separator # <<>> THEN SplitOn(text, cfg.fixed_separator)
                ELSE <<text>>,
                1, cfg)

\* The pieces the merge passes of recursive_split_text(text) hand on to
\* recursive_split_text (other_info = self.recursive_split_text(s)), and
\* those handed on in turn; a pass ends at a piece whose recursion fails.
RECURSIVE RecursedPieces(_, _, _)
RecursedPieces(text, cfg, depth) ==
    IF depth > RecursionLimit THEN {}
    ELSE LET splits == SplitsOf(text, PickSeparator(text, cfg.separators, 1))
             Recursed(k) == ~IsGoodSplit(LengthFunction(splits[k]), cfg)
             Reached(k) == \A j \in 1..(k - 1) :
                              Recursed(j) => RecursiveSplitText(splits[j], cfg, depth + 1).ok
         IN UNION { IF Recursed(k) /\ Reached(k)
                    THEN {splits[k]} \cup RecursedPieces(splits[k], cfg, depth + 1)
                    ELSE {}
                    : k \in DOMAIN splits }

\* The pieces handed on in the course of split_text(text).
RecursedInSplitText(text, cfg) ==
    LET chunks == IF cfg.fixed_separator # <<>> THEN SplitOn(text, cfg.fixed_separator)
                  ELSE <<text>>
        Reached(k) == \A j \in 1..(k - 1) :
                         NeedsRecursiveSplit(chunks[j], cfg)
                             => RecursiveSplitText(chunks[j], cfg, 1).ok
    IN UNION { IF NeedsRecursiveSplit(chunks[k], cfg) /\ Reached(k)
               THEN RecursedPieces(chunks[k], cfg, 1)
               ELSE {}
               : k \in DOMAIN chunks }

SplitInit ==
    /\ sp_text \in SplitTexts
    /\ sp_cfg \in SplitConfigs
    /\ sp_status = "idle"
    /\ sp_chunks = <<>>
    /\ sp_recursed = {}
    /\ InsertIdle
    /\ SearchIdle
    /\ BootstrapIdle
    /\ ExternalIdle
    /\ MarkdownIdle
    /\ DeleteIdle
    /\ ProcessorIdle
    /\ FactoryIdle
    /\ ResplitIdle
    /\ LifecycleIdle
    /\ SchemaIdle
    /\ SharedIdle
    /\ SparseIdle

\* split_text is called on the text.
CallSplitText ==
    /\ sp_status = "idle"
    /\ LET r == SplitText(sp_text, sp_cfg)
       IN /\ sp_status' = IF r.ok THEN "returned" ELSE "RecursionError"
          /\ sp_chunks' = r.chunks
    /\ sp_recursed' = RecursedInSplitText(sp_text, sp_cfg)
    /\ UNCHANGED <<sp_text, sp_cfg>>
    /\ UNCHANGED notSp

SplitNext == CallSplitText

SpecSplit == SplitInit /\ [][SplitNext]_vars

(* Claims about FixedRecursiveCharacterTextSplitter *)

\* The non-empty separators the splitter may have split on.
UsableSeparators(cfg) ==
    { cfg.separators[k] : k \in 1..Len(cfg.separators) } \ {<<>>}

\* A unit the splitter cannot split: at most one character, or, when the
\* separator list has no "" to fall back on, a piece no listed separator is in.
AtomicUnit(chunk, cfg) ==
    \/ Len(chunk) <= 1
    \/ \A k \in 1..Len(cfg.separators) :
          /\ cfg.separators[k] # <<>>
          /\ ~Contains(chunk, cfg.separators[k])

\* C5: no chunk split_text returns is longer (by length_function) than
\* chunk_size, except a single atomic unit that is itself longer.
C5_ChunkWithinBudget ==
    sp_status = "returned" =>
        \A i \in 1..Len(sp_chunks) :
            \/ LengthFunction(sp_chunks[i]) <= sp_cfg.chunk_size
            \/ AtomicUnit(sp_chunks[i], sp_cfg)

\* A text longer than chunk_size came back as several chunks, one of them
\* merged from more than one piece.
C5_Witness ==
    /\ sp_status = "returned"
    /\ LengthFunction(sp_text) > sp_cfg.chunk_size
    /\ Len(sp_chunks) >= 2
    /\ \E i \in 1..Len(sp_chunks) : Len(sp_chunks[i]) = sp_cfg.chunk_size /\ Len(sp_chunks[i]) >= 2

\* C6: recursive_split_text terminates on every text, chunk_size >= 1 and
\* separator list: a call of split_text never ends in RecursionError, and a
\* text made of one atomic unit as long as chunk_size or longer comes back as
\* exactly one chunk.
C6_RecursionTerminates ==
    sp_status # "idle" =>
        /\ sp_status = "returned"
        /\ (AtomicUnit(sp_text, sp_cfg) /\ LengthFunction(sp_text) >= sp_cfg.chunk_size)
              => sp_chunks = <<sp_text>>

\* Whether the chunks from the k-th on lie in the text in order, the first
\* at its start and the last at its end, each next one either right after a
\* separator that follows the previous chunk, or directly after it, or
\* overlapping its tail by at most chunk_overlap; e is where the previous
\* chunk ends.
RECURSIVE CoversFrom(_, _, _, _, _)
CoversFrom(chunks, k, e, text, cfg) ==
    IF k > Len(chunks) THEN e = Len(text)
    ELSE \E st \in 1..(Len(text) + 1) :
            /\ OccursAt(text, st, chunks[k])
            /\ k = 1 => st = 1
            /\ k > 1 =>
                  \/ /\ st <= e + 1
                     /\ e - st + 1 <= cfg.chunk_overlap
                  \/ /\ st > e + 1
                     /\ SubSeq(text, e + 1, st - 1) \in
                           (UsableSeparators(cfg) \cup {cfg.fixed_separator})
            /\ st + Len(chunks[k]) - 1 >= e
            /\ CoversFrom(chunks, k + 1, st + Len(chunks[k]) - 1, text, cfg)

\* C7: the chunks split_text returns, put together in order with the
\* separators split on between them and the text repeated by the overlap
\* counted once, give back the text: nothing is lost or reordered.
C7_ChunksReconstructText ==
    sp_status = "returned" =>
        /\ sp_chunks # <<>>
        /\ CoversFrom(sp_chunks, 1, 0, sp_text, sp_cfg)

\* A text was split into three chunks or more, with a separator left out
\* between two of them.
C7_Witness ==
    /\ sp_status = "returned"
    /\ Len(sp_chunks) >= 3
    /\ Len(Concat(sp_chunks)) < Len(sp_text)
    /\ sp_cfg.chunk_overlap = 0

\* C22: in the merge pass of recursive_split_text a piece is split
\* recursively only if its own length exceeds chunk_size: a piece of at most
\* chunk_size, one of exactly chunk_size included, goes to the buffer and is
\* not split further.
C22_OnlyOversizedPiecesRecursed ==
    sp_status # "idle" =>
        \A s \in sp_recursed : LengthFunction(s) > sp_cfg.chunk_size

------------------------------------------------------------------------------
(* ExternalIndexProcessor.extract and transform *)

\* Bounds of the extract model: the documents in a response, and the calls
\* made on one processor.
MaxDocs == 2
MaxExternalCalls == 2

\* A metadata mapping: a set of <<key, value>> pairs.  An entry without
\* metadata yields the empty mapping, so the entries with one carry a key.
Metadatas == { {<<"doc_id", "d1">>} }

\* An entry of "documents": each of its two keys may be missing.
DocDicts ==
    { [page_content |-> pc, metadata |-> md] :
        pc \in {Absent, Str(<<>>), Str(<<"x">>)},
        md \in {Absent} \cup { [tag |-> "dict", val |-> 0, str |-> m] : m \in Metadatas } }

DocLists == UNION { [1..n -> DocDicts] : n \in 0..MaxDocs }

\* The response envelope {data: {outputs: {result: {documents: [...]}}}},
\* any level of which may be missing; "outputs" may also hold other keys only.
Responses ==
    { EmptyResponse,
      [EmptyResponse EXCEPT !.has_data = TRUE],
      [EmptyResponse EXCEPT !.has_data = TRUE, !.has_outputs = TRUE],
      [EmptyResponse EXCEPT !.has_data = TRUE, !.has_outputs = TRUE, !.other_outputs = TRUE],
      [EmptyResponse EXCEPT !.has_data = TRUE, !.has_outputs = TRUE, !.has_result = TRUE] }
    \cup
    { [has_data |-> TRUE, has_outputs |-> TRUE, other_outputs |-> o, has_result |-> TRUE,
       has_documents |-> TRUE, documents |-> docs] : o \in BOOLEAN, docs \in DocLists }

\* DocumentResult.from_dict, then Document(page_content=..., metadata=...)
DocumentFromDict(doc_data) ==
    [page_content |-> IF doc_data.page_content = Absent THEN <<"t", "e", "s", "t">>
                      ELSE doc_data.page_content.str,
     metadata |-> IF doc_data.metadata = Absent THEN {} ELSE doc_data.metadata.str]

\* outputs = parsed_response.data.get("outputs", {}); `if outputs:` holds for
\* a dict with a key in it.
OutputsTruthy(response) ==
    /\ response.has_data
    /\ response.has_outputs
    /\ (response.has_result \/ response.other_outputs)

\* output_result.result.get("documents", [])
DocumentsOf(response) ==
    IF response.has_result /\ response.has_documents THEN response.documents ELSE <<>>

PlaceholderDocument == [page_content |-> <<>>, metadata |-> {}]

\* What extract returns for a response.
ExtractValue(response) ==
    IF OutputsTruthy(response)
    THEN ListValue([k \in 1..Len(DocumentsOf(response)) |->
                      DocumentFromDict(DocumentsOf(response)[k])])
    ELSE NoneValue

ExternalInit ==
    /\ ExternalIdle
    /\ InsertIdle
    /\ SearchIdle
    /\ BootstrapIdle
    /\ SplitterIdle
    /\ MarkdownIdle
    /\ DeleteIdle
    /\ ProcessorIdle
    /\ FactoryIdle
    /\ ResplitIdle
    /\ LifecycleIdle
    /\ SchemaIdle
    /\ SharedIdle
    /\ SparseIdle

\* extract: the file is posted, the response parsed; with outputs the
\* documents are kept in self.document and returned, without them None is
\* returned and self.document stays as it was.
Extract(response) ==
    /\ ex_calls < MaxExternalCalls
    /\ ex_calls' = ex_calls + 1
    /\ ex_response' = response
    /\ ex_result' = ExtractValue(response)
    /\ ex_document' = IF OutputsTruthy(response) THEN ExtractValue(response) ELSE ex_document
    /\ ex_status' = "extracted"
    /\ ex_posts' = 1
    /\ UNCHANGED <<ex_transformed, ex_argument>>
    /\ UNCHANGED notEx

\* The lists a caller may hand to transform.
TransformArguments ==
    { <<>>, <<[page_content |-> <<"y">>, metadata |-> {}]>> }

\* A transform that hands back the documents it was given.
TransformReturnsArgument(documents) ==
    /\ ex_calls < MaxExternalCalls
    /\ ex_calls' = ex_calls + 1
    /\ ex_argument' = documents
    /\ ex_transformed' = ListValue(documents)
    /\ ex_status' = "transformed"
    /\ ex_posts' = 0
    /\ UNCHANGED <<ex_response, ex_result, ex_document>>
    /\ UNCHANGED notEx

\* transform(documents): documents = self.document; return documents
Transform(documents) ==
    /\ ex_calls < MaxExternalCalls
    /\ ex_calls' = ex_calls + 1
    /\ ex_argument' = documents
    /\ ex_transformed' = ex_document
    /\ ex_status' = "transformed"
    /\ ex_posts' = 0
    /\ UNCHANGED <<ex_response, ex_result, ex_document>>
    /\ UNCHANGED notEx

ExternalNext ==
    \/ \E response \in Responses : Extract(response)
    \/ \E documents \in TransformArguments : Transform(documents)

SpecExternal == ExternalInit /\ [][ExternalNext]_vars

(* Claims about ExternalIndexProcessor.extract *)

\* C10: extract never returns None or an empty list; for a response that
\* yields no document it returns exactly one placeholder Document with
\* page_content "" and metadata {}.
C10_ExtractNeverEmpty ==
    ex_status = "extracted" =>
        /\ ex_result.tag = "list"
        /\ ex_result.docs # <<>>
        /\ DocumentsOf(ex_response) = <<>> => ex_result.docs = <<PlaceholderDocument>>

\* C16: transform returns the documents captured during extract, whatever
\* list it is given: after an extract that returned the list L, transform
\* returns L, the same documents in the same order, and it sends no request.
C16_TransformReturnsExtracted ==
    ex_status = "transformed" =>
        /\ ex_posts = 0
        /\ ex_result.tag = "list" => ex_transformed = ex_result

\* transform was given a list other than the one extract had returned.
C16_Witness ==
    /\ ex_status = "transformed"
    /\ ex_result.tag = "list"
    /\ ex_result.docs # <<>>
    /\ ex_argument # ex_result.docs
    /\ ex_transformed = ex_result

------------------------------------------------------------------------------
(* Regular expressions and string methods MarkdownTextSplitter uses *)

HASH == "#"

\* \s, within the characters of the model.
Whitespace == {SP, NL}

SetMin(S) == CHOOSE x \in S : \A y \in S : x <= y
SetMax(S) == CHOOSE x \in S : \A y \in S : x >= y

\* The length of the longest run of characters of the set S that starts at
\* position p of t.
RunLength(t, p, S) ==
    SetMin({ q \in p..(Len(t) + 1) : q = Len(t) + 1 \/ t[q] \notin S }) - p

\* The length of the longest run of characters other than newline that
\* starts at position p of t: [^\n]+
LineLength(t, p) ==
    SetMin({ q \in p..(Len(t) + 1) : q = Len(t) + 1 \/ t[q] = NL }) - p

IsSpace(c) == c \in Whitespace

\* ^ under re.MULTILINE
LineStart(t, p) == p = 1 \/ t[p - 1] = NL

\* A match of ^(#{1,maxHashes})\s+([^\n]+) at position p: the hashes are all
\* the hashes there; \s+ takes as much white space as leaves a character
\* other than newline for the group, which runs to the end of its line.
HeaderMatchAt(t, p, maxHashes) ==
    LET H == RunLength(t, p, {HASH})
        W == RunLength(t, p + H, Whitespace)
        K == { k \in 1..W : p + H + k <= Len(t) /\ t[p + H + k] # NL }
        g == p + H + SetMax(K)
    IN IF LineStart(t, p) /\ H >= 1 /\ H <= maxHashes /\ K # {}
       THEN [ok |-> TRUE, start |-> p, level |-> H, gstart |-> g,
             gend |-> g + LineLength(t, g) - 1]
       ELSE [ok |-> FALSE, start |-> p, level |-> 0, gstart |-> 0, gend |-> 0]

\* list(pattern.finditer(t)): the matches from position pos on, left to
\* right, each search starting where the match before it ended.
RECURSIVE FindHeaders(_, _, _)
FindHeaders(t, pos, maxHashes) ==
    LET at == { p \in pos..Len(t) : HeaderMatchAt(t, p, maxHashes).ok }
    IN IF at = {} THEN <<>>
       ELSE LET m == HeaderMatchAt(t, SetMin(at), maxHashes)
            IN <<m>> \o FindHeaders(t, m.gend + 1, maxHashes)

\* Python's t.strip()
Strip(t) ==
    LET solid == { p \in 1..Len(t) : ~IsSpace(t[p]) }
    IN IF solid = {} THEN <<>> ELSE SubSeq(t, SetMin(solid), SetMax(solid))

\* Python's t.replace(old, new) for a non-empty old.
RECURSIVE Replace(_, _, _)
Replace(t, old, new) ==
    IF ~Contains(t, old) THEN t
    ELSE LET p == FirstOccurrence(t, old)
         IN SubSeq(t, 1, p - 1) \o new \o Replace(SubSeq(t, p + Len(old), Len(t)), old, new)

\* Python's str(n) for n >= 0.
Digit(n) == <<"0", "1", "2", "3", "4", "5", "6", "7", "8", "9">>[n + 1]
RECURSIVE ToStr(_)
ToStr(n) == IF n < 10 THEN <<Digit(n)>> ELSE ToStr(n \div 10) \o <<Digit(n % 10)>>

\* re.sub(r"\s+", " ", t): every longest run of white space becomes one
\* space, so a character of t[lo..hi] stays if it is not white space, becomes
\* the space if it begins a run, and goes otherwise. Computed by halves.
RECURSIVE CollapseRange(_, _, _)
CollapseRange(t, lo, hi) ==
    IF lo > hi THEN <<>>
    ELSE IF lo = hi
         THEN IF ~IsSpace(t[lo]) THEN <<t[lo]>>
              ELSE IF lo > 1 /\ IsSpace(t[lo - 1]) THEN <<>> ELSE <<SP>>
         ELSE LET mid == (lo + hi) \div 2
              IN CollapseRange(t, lo, mid) \o CollapseRange(t, mid + 1, hi)

CollapseWhitespace(t) == CollapseRange(t, 1, Len(t))

\* How many hashes (#{1,6})([^\s]) takes at position p of t, 0 when it does
\* not match there: of the H hashes at p the pattern takes up to six and then
\* one character that is not white space, which is the character after the
\* hashes or, failing that, the last of them.
HashesTakenAt(t, p) ==
    LET H == RunLength(t, p, {HASH})
    IN IF H > 6 THEN 6
       ELSE IF H >= 1 /\ p + H <= Len(t) /\ ~IsSpace(t[p + H]) THEN H
       ELSE IF H >= 2 THEN H - 1
       ELSE 0

\* re.sub(r"(#{1,6})([^\s])", r"\1 \2", t): a space goes between the hashes
\* and the character of every match, the matches found left to right.
RECURSIVE SpaceAfterHashes(_)
SpaceAfterHashes(t) ==
    LET at == { p \in 1..Len(t) : HashesTakenAt(t, p) >= 1 }
    IN IF at = {} THEN t
       ELSE LET p == SetMin(at)
                h == HashesTakenAt(t, p)
            IN SubSeq(t, 1, p + h - 1) \o <<SP, t[p + h]>>
                 \o SpaceAfterHashes(SubSeq(t, p + h + 1, Len(t)))

------------------------------------------------------------------------------
(* MarkdownTextSplitter *)

MaxHeaderLevel == 6

Hashes(n) == [k \in 1..n |-> HASH]

\* f"{'#' * level} {header}"
HeaderLine(level, header) == Hashes(level) \o <<SP>> \o header

\* The text from one match to the next, or to the end of the text.
SectionText(text, ms, i) ==
    SubSeq(text, ms[i].start, IF i < Len(ms) THEN ms[i + 1].start - 1 ELSE Len(text))

\* The sections of _split_by_h1: one (title, content) per match of
\* ^#\s+([^\n]+); what precedes the first match belongs to no section.
H1Sections(text, matches) ==
    [i \in 1..Len(matches) |->
        [title |-> Strip(SubSeq(text, matches[i].gstart, matches[i].gend)),
         content |-> SectionText(text, matches, i)]]

\* _split_by_h1
SplitByH1(text) == H1Sections(text, FindHeaders(text, 1, 1))

\* The subsections of _get_subsections: one (level, header,
\* section_content) per header match.
Subsections(content, matches) ==
    [i \in 1..Len(matches) |->
        [level |-> matches[i].level,
         header |-> SubSeq(content, matches[i].gstart, matches[i].gend),
         content |-> SectionText(content, matches, i)]]

\* _get_subsections
GetSubsections(content) == Subsections(content, FindHeaders(content, 1, MaxHeaderLevel))

\* _create_chunk
CreateChunk(h1_title, current_header, content, part_info) ==
    IF part_info # <<>>
    THEN <<HASH, SP>> \o h1_title \o <<SP>> \o current_header \o <<SP>> \o part_info \o <<SP>> \o content
    ELSE <<HASH, SP>> \o h1_title \o <<SP>> \o current_header \o <<SP>> \o content

\* _merge_subsections
MergeSubsections(subsections) ==
    Join(Concat([i \in 1..Len(subsections) |->
                   <<HeaderLine(subsections[i].level, subsections[i].header),
                     Strip(subsections[i].content)>>]),
         <<SP>>)

PartPrefix == <<"P", "a", "r", "t", SP>>

\* f"Part {n}"
PartInfo(n) == PartPrefix \o ToStr(n)

\* f"Part {i + 1} of {len(chunks)} - ", i + 1 being k here
PartOf(k, n) == PartPrefix \o ToStr(k) \o <<SP, "o", "f", SP>> \o ToStr(n) \o <<SP, "-", SP>>

\* The loop of _split_long_section over the paragraphs from the i-th on.
RECURSIVE SplitParagraphs(_, _, _, _, _, _, _, _)
SplitParagraphs(chunk_size, h1_title, header, paragraphs, i, chunks, current_paragraphs, current_size) ==
    LET flushed == Append(chunks, CreateChunk(h1_title, header, Join(current_paragraphs, <<SP>>),
                                              PartInfo(Len(chunks) + 1)))
    IN IF i > Len(paragraphs)
       THEN IF current_paragraphs # <<>> THEN flushed ELSE chunks
       ELSE LET para == paragraphs[i]
                para_size == LengthFunction(para)
            IN IF current_size + para_size > chunk_size
               THEN SplitParagraphs(chunk_size, h1_title, header, paragraphs, i + 1,
                                    IF current_paragraphs # <<>> THEN flushed ELSE chunks,
                                    <<para>>, para_size)
               ELSE SplitParagraphs(chunk_size, h1_title, header, paragraphs, i + 1, chunks,
                                    Append(current_paragraphs, para), current_size + para_size)

\* The second loop of _split_long_section: every "Part " of every chunk
\* replaced by "Part k of n - ".
NumberParts(chunks) ==
    [k \in 1..Len(chunks) |-> Replace(chunks[k], PartPrefix, PartOf(k, Len(chunks)))]

\* _split_long_section: the paragraphs packed into parts, then numbered.
SplitLongSection(chunk_size, h1_title, header_text, header_level, content) ==
    NumberParts(SplitParagraphs(chunk_size, h1_title, HeaderLine(header_level, header_text),
                                SplitOn(content, NLNL), 1, <<>>, <<>>, 0))

\* current_size + section_size > self._chunk_size * 1.2 or header_level <= 3
ShouldStartNewChunk(chunk_size, current_size, section_size, header_level) ==
    \/ 5 * (current_size + section_size) > 6 * chunk_size
    \/ header_level <= 3

\* str(None), what an f-string prints for the initial current_header
NoneHeader == <<"N", "o", "n", "e">>

\* A chunk, and the subsections (their places in the list) it was built from.
BuiltFrom(chunk, subs) == [chunk |-> chunk, subs |-> subs]

\* Chunks that were all built from the same subsections.
AllBuiltFrom(chunks, subs) == [k \in 1..Len(chunks) |-> BuiltFrom(chunks[k], subs)]

\* The loop of _process_section over the subsections from the i-th on;
\* current_subs are the places of the subsections held in current_chunk.
RECURSIVE ProcessSubsections(_, _, _, _, _, _, _, _, _)
ProcessSubsections(chunk_size, h1_title, subsections, i, chunks, current_chunk, current_size, current_header, current_subs) ==
    LET merged == Append(chunks, BuiltFrom(CreateChunk(h1_title, current_header,
                                                       MergeSubsections(current_chunk), <<>>),
                                           current_subs))
    IN IF i > Len(subsections)
       THEN IF current_chunk # <<>> THEN merged ELSE chunks
       ELSE LET sub == subsections[i]
                section_size == LengthFunction(sub.content)
                flush == ShouldStartNewChunk(chunk_size, current_size, section_size, sub.level)
                         /\ current_chunk # <<>>
                chunks1 == IF flush THEN merged ELSE chunks
                chunk1 == IF flush THEN <<>> ELSE current_chunk
                size1 == IF flush THEN 0 ELSE current_size
                subs1 == IF flush THEN {} ELSE current_subs
            IN IF section_size > chunk_size
               THEN ProcessSubsections(chunk_size, h1_title, subsections, i + 1,
                        chunks1 \o AllBuiltFrom(SplitLongSection(chunk_size, h1_title, sub.header,
                                                                  sub.level, sub.content), {i}),
                        chunk1, size1, current_header, subs1)
               ELSE ProcessSubsections(chunk_size, h1_title, subsections, i + 1, chunks1,
                        Append(chunk1, sub), size1 + section_size,
                        IF chunk1 = <<>> THEN HeaderLine(sub.level, sub.header)
                        ELSE current_header,
                        subs1 \cup {i})

\* _process_section from "if not subsections" on
ProcessGiven(chunk_size, h1_title, content, subsections) ==
    IF subsections = <<>>
    THEN <<BuiltFrom(CreateChunk(h1_title, <<>>, content, <<>>), {})>>
    ELSE ProcessSubsections(chunk_size, h1_title, subsections, 1, <<>>, <<>>, 0, NoneHeader, {})

\* _process_section
ProcessSection(chunk_size, h1_title, content) ==
    ProcessGiven(chunk_size, h1_title, content, GetSubsections(content))

\* _clean_chunk
CleanChunk(text) == Strip(SpaceAfterHashes(CollapseWhitespace(text)))

\* The chunks of the i-th first-level section, their subsections named by
\* <<section, subsection>>.
InSection(i, section_chunks) ==
    [k \in 1..Len(section_chunks) |->
        BuiltFrom(section_chunks[k].chunk, { <<i, j>> : j \in section_chunks[k].subs })]

\* The loop of split_text over the first-level sections: final_chunks before
\* the cleanup, each with the <<section, subsection>> places it was built from.
SectionChunks(h1_sections, chunk_size) ==
    Concat([i \in 1..Len(h1_sections) |->
              IF Strip(h1_sections[i].content) = <<>> THEN <<>>
              ELSE InSection(i, ProcessSection(chunk_size, h1_sections[i].title,
                                               h1_sections[i].content))])

\* final_chunks of split_text, before the cleanup
FinalChunks(text, chunk_size) == SectionChunks(SplitByH1(text), chunk_size)

\* final_chunks = [self._clean_chunk(chunk) for chunk in final_chunks]
CleanChunks(final_chunks) ==
    [i \in 1..Len(final_chunks) |-> CleanChunk(final_chunks[i].chunk)]

\* MarkdownTextSplitter.split_text
MarkdownSplitText(text, chunk_size) == CleanChunks(FinalChunks(text, chunk_size))

\* The subsections each of the chunks was built from.
SourcesOf(final_chunks) == [i \in 1..Len(final_chunks) |-> final_chunks[i].subs]

\* The subsections each chunk of split_text was built from.
ChunkSources(text, chunk_size) == SourcesOf(FinalChunks(text, chunk_size))

------------------------------------------------------------------------------
(* The two splitters given the same Markdown text *)

MaxBlocks == 3

\* The character of a fence marker. A TLA+ string cannot hold the backquote;
\* the splitter treats no character of a fence specially, so the fences here
\* are written with the tilde, Markdown's other fence character.
FENCE == "~"
FenceLine == <<FENCE, FENCE, FENCE>>

H1Block == <<HASH, SP, "T">>
H2Block == <<HASH, HASH, SP, "S">>
H4Block == <<HASH, HASH, HASH, HASH, SP, "U">>
ParagraphBlock == <<"a">>
\* a paragraph of words that makes a section longer than a chunk
LongParagraphBlock ==
    <<"a", SP, "b", SP, "a", SP, "b", SP, "a", SP, "b", SP, "a", SP, "b", SP, "a", SP, "b">>
BlankBlock == <<>>
\* a fenced block with a blank line in it
FenceWithBlankLine == FenceLine \o <<NL, "a", NL, NL, "b", NL>> \o FenceLine
\* a fenced block with a line that starts with '#'
FenceWithHashLine == FenceLine \o <<NL, HASH, SP, "c", NL>> \o FenceLine

FenceBlocks == {FenceWithBlankLine, FenceWithHashLine}

MarkdownBlocks ==
    {H1Block, H2Block, H4Block, ParagraphBlock, LongParagraphBlock, BlankBlock} \cup FenceBlocks

\* The texts: up to MaxBlocks blocks, one per line or group of lines.
MarkdownTexts ==
    { Join(bs, <<NL>>) : bs \in UNION { [1..n -> MarkdownBlocks] : n \in 0..MaxBlocks } }

\* chunk_size: smaller than either fence, larger than a heading and a fence,
\* and just below a fourth-level heading with the long paragraph.
MarkdownChunkSizes == {8, 24, 25}

\* FixedRecursiveCharacterTextSplitter(chunk_size=..., chunk_overlap=0)
DefaultSplitConfig(chunk_size) ==
    [chunk_size |-> chunk_size, chunk_overlap |-> 0, fixed_separator |-> NLNL,
     separators |-> DefaultSeparators]

MarkdownInit ==
    /\ md_text \in MarkdownTexts
    /\ md_chunk_size \in MarkdownChunkSizes
    /\ md_status = "idle"
    /\ md_chunks = <<>>
    /\ md_sources = <<>>
    /\ sp_text = md_text
    /\ sp_cfg = DefaultSplitConfig(md_chunk_size)
    /\ sp_status = "idle"
    /\ sp_chunks = <<>>
    /\ sp_recursed = {}
    /\ InsertIdle
    /\ SearchIdle
    /\ BootstrapIdle
    /\ ExternalIdle
    /\ DeleteIdle
    /\ ProcessorIdle
    /\ FactoryIdle
    /\ ResplitIdle
    /\ LifecycleIdle
    /\ SchemaIdle
    /\ SharedIdle
    /\ SparseIdle

\* MarkdownTextSplitter.split_text is called on the text.
CallMarkdownSplitText ==
    /\ md_status = "idle"
    /\ md_chunks' = MarkdownSplitText(md_text, md_chunk_size)
    /\ md_sources' = ChunkSources(md_text, md_chunk_size)
    /\ md_status' = "returned"
    /\ UNCHANGED <<md_text, md_chunk_size>>
    /\ UNCHANGED notMd

\* FixedRecursiveCharacterTextSplitter.split_text is called again, on a chunk
\* it returned.
SplitChunkAgain(i) ==
    /\ sp_status = "returned"
    /\ rs_status = "idle"
    /\ i \in DOMAIN sp_chunks
    /\ rs_splitter' = "recursive"
    /\ rs_chunk' = sp_chunks[i]
    /\ LET r == SplitText(sp_chunks[i], sp_cfg)
       IN /\ rs_status' = IF r.ok THEN "returned" ELSE "RecursionError"
          /\ rs_chunks' = r.chunks
    /\ UNCHANGED notRs

\* MarkdownTextSplitter.split_text is called again, on a chunk it returned.
MarkdownSplitChunkAgain(i) ==
    /\ md_status = "returned"
    /\ rs_status = "idle"
    /\ i \in DOMAIN md_chunks
    /\ rs_splitter' = "markdown"
    /\ rs_chunk' = md_chunks[i]
    /\ rs_chunks' = MarkdownSplitText(md_chunks[i], md_chunk_size)
    /\ rs_status' = "returned"
    /\ UNCHANGED notRs

MarkdownNext ==
    \/ CallMarkdownSplitText
    \/ CallSplitText
    \/ \E i \in DOMAIN sp_chunks : SplitChunkAgain(i)
    \/ \E i \in DOMAIN md_chunks : MarkdownSplitChunkAgain(i)

SpecMarkdown == MarkdownInit /\ [][MarkdownNext]_vars

(* Claims about the splitters on Markdown text *)

\* C8: splitting the empty text yields zero chunks, with
\* FixedRecursiveCharacterTextSplitter and with MarkdownTextSplitter alike.
C8_EmptyTextNoChunks ==
    /\ (sp_status # "idle" /\ sp_text = <<>>) =>
          (sp_status = "returned" /\ sp_chunks = <<>>)
    /\ (md_status = "returned" /\ md_text = <<>>) => md_chunks = <<>>

\* How many times s occurs in t.
Occurrences(t, s) == Cardinality({ p \in 1..Len(t) : OccursAt(t, p, s) })

\* The chunk holds the fenced block as it is in the text, or with its white
\* space normalised as _clean_chunk normalises every chunk.
HoldsFence(chunk, fence) ==
    \/ Contains(chunk, fence)
    \/ Contains(chunk, CollapseWhitespace(fence))

\* C9: MarkdownTextSplitter never splits inside a fenced block: a fence
\* larger than chunk_size, in a text that opens with a first-level heading
\* and holds the fence once, is intact in exactly one of the chunks, also
\* when it has a blank line or a line that starts with '#'.
C9_FenceInOneChunk ==
    md_status = "returned" =>
        \A fence \in FenceBlocks :
            ( /\ OccursAt(md_text, 1, H1Block \o <<NL>>)
              /\ Occurrences(md_text, fence) = 1
              /\ Len(fence) > md_chunk_size )
            => Cardinality({ i \in DOMAIN md_chunks : HoldsFence(md_chunks[i], fence) }) = 1

\* The chunk size the splitter that is called again works with.
ChunkSizeAgain == IF rs_splitter = "recursive" THEN sp_cfg.chunk_size ELSE md_chunk_size

\* C20: splitting is idempotent on its own output: with either splitter,
\* split_text called again on a chunk it returned that is no longer than
\* chunk_size returns exactly that one chunk, unchanged.
C20_SplitAgainReturnsChunk ==
    (rs_status # "idle" /\ Len(rs_chunk) <= ChunkSizeAgain) =>
        (rs_status = "returned" /\ rs_chunks = <<rs_chunk>>)

\* C23: MarkdownTextSplitter.split_text emits its chunks in document order:
\* when subsection A precedes subsection B in the text, no chunk built from B
\* comes before a chunk built from A, also when a subsection longer than
\* chunk_size follows smaller ones still held in the merge buffer.
C23_ChunksInDocumentOrder ==
    md_status = "returned" =>
        \A p, q \in DOMAIN md_sources :
            \A a \in md_sources[p], b \in md_sources[q] :
                (a[1] < b[1] \/ (a[1] = b[1] /\ a[2] < b[2])) => p <= q

\* The words of t: its longest runs of characters other than white space.
Words(t) ==
    { SubSeq(t, p, p + RunLength(t, p, {t[q] : q \in 1..Len(t)} \ Whitespace) - 1) :
        p \in { q \in 1..Len(t) : ~IsSpace(t[q]) /\ (q = 1 \/ IsSpace(t[q - 1])) } }

\* C24: MarkdownTextSplitter.split_text loses no text: every word of the
\* text (header markers apart, which the cleanup may rewrite) is a word of
\* at least one chunk, also a word that precedes the first top-level
\* heading, and also in a text that has no top-level heading.
C24_NoTextLost ==
    md_status = "returned" =>
        \A w \in Words(md_text) :
            ~Contains(w, <<HASH>>) => \E i \in DOMAIN md_chunks : w \in Words(md_chunks[i])

\* The text has the heading on a line of a first-level section.
HasHeadingLine(text, heading) ==
    /\ OccursAt(text, 1, H1Block \o <<NL>>)
    /\ \E p \in 1..Len(text) :
          /\ LineStart(text, p)
          /\ OccursAt(text, p, heading)
          /\ LineLength(text, p) = Len(heading)

\* C30: after the cleanup pass every chunk is free of runs of two or more
\* white-space characters and of leading and trailing white space, has one
\* space after each header marker with the number of '#' of the marker
\* unchanged (a heading '## S' of the text is '## S' in a chunk), and is left
\* as it is by a second cleanup.
C30_CleanupNormalizes ==
    md_status = "returned" =>
        /\ \A i \in DOMAIN md_chunks :
              LET chunk == md_chunks[i]
              IN /\ \A p \in 1..(Len(chunk) - 1) : ~(IsSpace(chunk[p]) /\ IsSpace(chunk[p + 1]))
                 /\ chunk # <<>> => ~IsSpace(chunk[1]) /\ ~IsSpace(chunk[Len(chunk)])
                 /\ CleanChunk(chunk) = chunk
        /\ \A heading \in {H2Block, H4Block} :
              HasHeadingLine(md_text, heading)
                  => \E i \in DOMAIN md_chunks : Contains(md_chunks[i], heading)

------------------------------------------------------------------------------
(* MilvusVector.delete_by_metadata_field, delete_by_ids, delete *)

MaxRecords == 2
MaxDeleteCalls == 2

\* The metadata fields a filter may name and the values they hold.
MetadataKeys == {"doc_id", "document_id"}
MetadataValues == {"a", "b"}

\* A record of the collection: its primary key and its metadata.
StoredRecords == [pk : 1..MaxRecords, metadata : [MetadataKeys -> MetadataValues]]

\* The collections: no two records share a primary key.
Collections ==
    { rs \in SUBSET StoredRecords : \A r1, r2 \in rs : r1.pk = r2.pk => r1 = r2 }

\* f'metadata["doc_id"] in {ids}'
DocIdFilterOnDocument(ids) == [key |-> "document_id", values |-> ids]
DocIdFilter(ids) == [key |-> "doc_id", values |-> ids]

\* f'metadata["{key}"] == "{value}"'
FieldFilter(key, value) == [key |-> key, values |-> {value}]

\* client.query(filter=..., output_fields=["id"]): the ids of the records the
\* filter selects.
StoreQuery(records, filter) ==
    { r.pk : r \in { x \in records : x.metadata[filter.key] \in filter.values } }

\* client.delete(pks=ids)
StoreDelete(records, ids) == { r \in records : r.pk \notin ids }

\* A call to the store, as the log keeps it.
StoreCall(call, filter, ids) == [call |-> call, filter |-> filter, pks |-> ids]
NoFilter == [key |-> "", values |-> {}]
HasCollectionCall == StoreCall("has_collection", NoFilter, {})

\* if has_collection: query the filter; if the result is not empty, delete
\* the ids it holds.  The body delete_by_ids and delete_by_metadata_field share.
DeleteWhere(filter) ==
    IF dl_exists
    THEN LET result == StoreQuery(dl_records, filter)
         IN IF result # {}
            THEN /\ dl_records' = StoreDelete(dl_records, result)
                 /\ dl_log' = <<HasCollectionCall, StoreCall("query", filter, {}),
                                StoreCall("delete", NoFilter, result)>>
            ELSE /\ dl_records' = dl_records
                 /\ dl_log' = <<HasCollectionCall, StoreCall("query", filter, {})>>
    ELSE /\ dl_records' = dl_records
         /\ dl_log' = <<HasCollectionCall>>

DeleteInit ==
    /\ dl_exists \in BOOLEAN
    /\ dl_records \in (IF dl_exists THEN Collections ELSE {{}})
    /\ dl_before = {}
    /\ dl_op = [name |-> "none", key |-> "", values |-> {}, existed |-> FALSE]
    /\ dl_log = <<>>
    /\ dl_calls = 0
    /\ InsertIdle
    /\ SearchIdle
    /\ BootstrapIdle
    /\ SplitterIdle
    /\ ExternalIdle
    /\ MarkdownIdle
    /\ ProcessorIdle
    /\ FactoryIdle
    /\ ResplitIdle
    /\ LifecycleIdle
    /\ SchemaIdle
    /\ SharedIdle
    /\ SparseIdle

\* delete_by_ids(ids)
DeleteByIds(ids) ==
    /\ dl_calls < MaxDeleteCalls
    /\ dl_calls' = dl_calls + 1
    /\ dl_op' = [name |-> "delete_by_ids", key |-> "doc_id", values |-> ids,
                 existed |-> dl_exists]
    /\ dl_before' = dl_records
    /\ DeleteWhere(DocIdFilter(ids))
    /\ UNCHANGED dl_exists
    /\ UNCHANGED notDl

\* delete_by_metadata_field(key, value)
DeleteByMetadataField(key, value) ==
    /\ dl_calls < MaxDeleteCalls
    /\ dl_calls' = dl_calls + 1
    /\ dl_op' = [name |-> "delete_by_metadata_field", key |-> key, values |-> {value},
                 existed |-> dl_exists]
    /\ dl_before' = dl_records
    /\ DeleteWhere(FieldFilter(key, value))
    /\ UNCHANGED dl_exists
    /\ UNCHANGED notDl

\* The collection is dropped without asking whether it is there.
DeleteUnguarded ==
    /\ dl_calls < MaxDeleteCalls
    /\ dl_calls' = dl_calls + 1
    /\ dl_op' = [name |-> "delete", key |-> "", values |-> {}, existed |-> dl_exists]
    /\ dl_before' = dl_records
    /\ dl_exists' = FALSE
    /\ dl_records' = {}
    /\ dl_log' = <<StoreCall("drop_collection", NoFilter, {})>>
    /\ UNCHANGED notDl

\* delete(): if has_collection: drop_collection
Delete ==
    /\ dl_calls < MaxDeleteCalls
    /\ dl_calls' = dl_calls + 1
    /\ dl_op' = [name |-> "delete", key |-> "", values |-> {}, existed |-> dl_exists]
    /\ dl_before' = dl_records
    /\ IF dl_exists
       THEN /\ dl_exists' = FALSE
            /\ dl_records' = {}
            /\ dl_log' = <<HasCollectionCall, StoreCall("drop_collection", NoFilter, {})>>
       ELSE /\ UNCHANGED <<dl_exists, dl_records>>
            /\ dl_log' = <<HasCollectionCall>>
    /\ UNCHANGED notDl

DeleteNext ==
    \/ \E ids \in SUBSET MetadataValues : DeleteByIds(ids)
    \/ \E key \in MetadataKeys, value \in MetadataValues : DeleteByMetadataField(key, value)
    \/ Delete

SpecDelete == DeleteInit /\ [][DeleteNext]_vars

(* Claims about the delete methods *)

\* The kinds of store calls the last delete call issued.
CallsIssued == { dl_log[k].call : k \in 1..Len(dl_log) }

\* C12: when the collection does not exist, delete_by_ids,
\* delete_by_metadata_field and delete() return without a query, delete or
\* drop call and leave the store as it was; and delete_by_ids with ids that
\* match no record issues no delete call.
C12_DeleteOfNothingIsNoOp ==
    /\ (dl_op.name # "none" /\ ~dl_op.existed) =>
          /\ CallsIssued \cap {"query", "delete", "drop_collection"} = {}
          /\ dl_records = dl_before
          /\ ~dl_exists
    /\ ( /\ dl_op.name = "delete_by_ids"
         /\ \A r \in dl_before : r.metadata["doc_id"] \notin dl_op.values )
       => ("delete" \notin CallsIssued /\ dl_records = dl_before)

\* A delete call was made on a collection that does not exist, and another
\* with ids no record of an existing collection has.
C12_Witness ==
    \/ dl_op.name = "delete" /\ ~dl_op.existed
    \/ /\ dl_op.name = "delete_by_ids" /\ dl_op.existed /\ dl_before # {}
       /\ dl_op.values # {}
       /\ \A r \in dl_before : r.metadata["doc_id"] \notin dl_op.values

\* The records the last delete call removed.
Removed == dl_before \ dl_records

\* C13 as stated: delete_by_ids and delete_by_metadata_field remove only
\* records whose metadata.doc_id is in the id set the caller gave.
C13_RemovesOnlyGivenDocIds ==
    dl_op.name \in {"delete_by_ids", "delete_by_metadata_field"} =>
        \A r \in Removed : r.metadata["doc_id"] \in dl_op.values

\* C13 amended: delete_by_ids removes only records whose metadata.doc_id is
\* in the ids given, and delete_by_metadata_field(key, value) only records
\* whose metadata[key] is the value given; no other record is removed.
C13_RemovesOnlyFilterMatches ==
    dl_op.name \in {"delete_by_ids", "delete_by_metadata_field"} =>
        /\ dl_op.name = "delete_by_ids" => dl_op.key = "doc_id"
        /\ \A r \in Removed : r.metadata[dl_op.key] \in dl_op.values

\* delete_by_ids removed a record and left another, whose doc_id it was not given.
C13_Witness ==
    /\ dl_op.name = "delete_by_ids"
    /\ Removed # {}
    /\ \E r \in dl_records : r.metadata["doc_id"] \notin dl_op.values

------------------------------------------------------------------------------
(* load and clean of CustomParagraphIndexProcessor and ExternalIndexProcessor *)

MaxProcessorCalls == 1
MaxNodeIds == 2

\* The two classes have the same load and the same clean.
ProcessorVariants == {"custom", "external"}

\* dataset.indexing_technique
Techniques == {"high_quality", "economy"}

\* node_ids: None, or a list of up to MaxNodeIds ids, the empty list included.
NodeIdArguments ==
    {NoList} \cup { SomeList([k \in 1..n |-> k]) : n \in 0..MaxNodeIds }

\* kwargs.get("keywords_list"): not passed, or a list with one entry per document.
KeywordsListArguments == {NoList, SomeList(<<>>), SomeList(<<"kw">>)}

\* Python's truth value of an optional list: `if node_ids:`
Truthy(l) == l.tag = "list" /\ l.items # <<>>

\* A call on Vector(dataset) or on Keyword(dataset), as the log keeps it.
VectorCall(call, arg) == [target |-> "vector", call |-> call, arg |-> arg]
KeywordCall(call, arg) == [target |-> "keyword", call |-> call, arg |-> arg]

ProcessorInit ==
    /\ ip_variant \in ProcessorVariants
    /\ ip_technique \in Techniques
    /\ ip_op = [name |-> "none", node_ids |-> NoList, with_keywords |-> FALSE,
                keywords_list |-> NoList, vector_fails |-> FALSE, keyword_fails |-> FALSE]
    /\ ip_log = <<>>
    /\ ip_status = "idle"
    /\ ip_calls = 0
    /\ InsertIdle
    /\ SearchIdle
    /\ BootstrapIdle
    /\ SplitterIdle
    /\ ExternalIdle
    /\ MarkdownIdle
    /\ DeleteIdle
    /\ FactoryIdle
    /\ ResplitIdle
    /\ LifecycleIdle
    /\ SchemaIdle
    /\ SharedIdle
    /\ SparseIdle

\* if node_ids: x.delete_by_ids(node_ids) else: x.delete()
CleanTarget(target, node_ids) ==
    IF Truthy(node_ids)
    THEN <<[target |-> target, call |-> "delete_by_ids", arg |-> node_ids]>>
    ELSE <<[target |-> target, call |-> "delete", arg |-> NoList]>>

\* load(dataset, documents, with_keywords, **kwargs): vector.create for
\* "high_quality"; then, unless that raised, keyword.add_texts when
\* with_keywords, with keywords_list when one with entries was passed.
Load(with_keywords, keywords_list, vector_fails, keyword_fails) ==
    /\ ip_calls < MaxProcessorCalls
    /\ ip_calls' = ip_calls + 1
    /\ ip_op' = [name |-> "load", node_ids |-> NoList, with_keywords |-> with_keywords,
                 keywords_list |-> keywords_list, vector_fails |-> vector_fails,
                 keyword_fails |-> keyword_fails]
    /\ LET vector_side == ip_technique = "high_quality"
           keyword_side == ~(vector_side /\ vector_fails) /\ with_keywords
       IN /\ ip_log' = (IF vector_side THEN <<VectorCall("create", NoList)>> ELSE <<>>)
                       \o (IF keyword_side
                           THEN <<KeywordCall("add_texts", IF Truthy(keywords_list)
                                                           THEN keywords_list ELSE NoList)>>
                           ELSE <<>>)
          /\ ip_status' = IF (vector_side /\ vector_fails) \/ (keyword_side /\ keyword_fails)
                          THEN "raised" ELSE "returned"
    /\ UNCHANGED <<ip_variant, ip_technique>>
    /\ UNCHANGED notIp

\* clean(dataset, node_ids, with_keywords): the vector side for
\* "high_quality"; then, unless that raised, the keyword side when with_keywords.
Clean(node_ids, with_keywords, vector_fails, keyword_fails) ==
    /\ ip_calls < MaxProcessorCalls
    /\ ip_calls' = ip_calls + 1
    /\ ip_op' = [name |-> "clean", node_ids |-> node_ids, with_keywords |-> with_keywords,
                 keywords_list |-> NoList, vector_fails |-> vector_fails,
                 keyword_fails |-> keyword_fails]
    /\ LET vector_side == ip_technique = "high_quality"
           keyword_side == ~(vector_side /\ vector_fails) /\ with_keywords
       IN /\ ip_log' = (IF vector_side THEN CleanTarget("vector", node_ids) ELSE <<>>)
                       \o (IF keyword_side THEN CleanTarget("keyword", node_ids) ELSE <<>>)
          /\ ip_status' = IF (vector_side /\ vector_fails) \/ (keyword_side /\ keyword_fails)
                          THEN "raised" ELSE "returned"
    /\ UNCHANGED <<ip_variant, ip_technique>>
    /\ UNCHANGED notIp

ProcessorNext ==
    \/ \E with_keywords, vector_fails, keyword_fails \in BOOLEAN :
         \E keywords_list \in KeywordsListArguments :
            Load(with_keywords, keywords_list, vector_fails, keyword_fails)
    \/ \E with_keywords, vector_fails, keyword_fails \in BOOLEAN :
         \E node_ids \in NodeIdArguments :
            Clean(node_ids, with_keywords, vector_fails, keyword_fails)

SpecProcessor == ProcessorInit /\ [][ProcessorNext]_vars

(* Claims about load and clean *)

\* The calls of the last load or clean on one side.
CallsOn(target) ==
    { ip_log[k].call : k \in { j \in 1..Len(ip_log) : ip_log[j].target = target } }

\* C14: clean deletes by the id list when one is given (delete_by_ids only,
\* never the whole collection or keyword index) and deletes everything only
\* when none is given; the vector side is touched only for "high_quality"
\* and the keyword side only when with_keywords is true.
C14_CleanByIdsOrAll ==
    ip_op.name = "clean" =>
        /\ ip_op.node_ids.tag = "list"
              => CallsOn("vector") \cup CallsOn("keyword") \subseteq {"delete_by_ids"}
        /\ ip_op.node_ids.tag = "None"
              => CallsOn("vector") \cup CallsOn("keyword") \subseteq {"delete"}
        /\ CallsOn("vector") # {} => ip_technique = "high_quality"
        /\ CallsOn("keyword") # {} => ip_op.with_keywords

\* C15: load writes the vector store exactly when the technique is
\* "high_quality" and the keyword index exactly when with_keywords is true,
\* whether or not the other write is performed or fails.
C15_LoadWritesIndependent ==
    ip_op.name = "load" =>
        /\ ("create" \in CallsOn("vector")) <=> (ip_technique = "high_quality")
        /\ ("add_texts" \in CallsOn("keyword")) <=> ip_op.with_keywords

\* C28: clean called with an id list that is given but empty removes no
\* record: it sends no delete() to the vector store, which drops the whole
\* collection, and none to the keyword index.
C28_EmptyIdListRemovesNothing ==
    (ip_op.name = "clean" /\ ip_op.node_ids = SomeList(<<>>)) =>
        \A k \in DOMAIN ip_log : ip_log[k].call # "delete"

------------------------------------------------------------------------------
(* IndexProcessorFactory.init_index_processor *)

\* class IndexType(StrEnum): the members it defines and their values.
IndexType ==
    [PARAGRAPH_INDEX |-> "text_model",
     QA_INDEX |-> "qa_model",
     PARENT_CHILD_INDEX |-> "hierarchical_model",
     CUSTOM_PARAGRAPH_INDEX |-> "custom_text_model"]

\* IndexType.<name>: the member's value, or AttributeError for a name the
\* class does not define.
HasMember(name) == name \in DOMAIN IndexType

\* The index_type values tried: None, "", the four tags IndexType defines,
\* the tag of the external variant and a tag that is no variant's.
IndexTypeArguments ==
    {NoneArg, Str("")} \cup { Str(IndexType[name]) : name \in DOMAIN IndexType }
    \cup {Str("external_model"), Str("bogus")}

\* config_options.get("server_address"): no such key, "", or an address.
ServerAddressArguments == {Absent, Str(""), Str("http://splitter")}

CleanArguments == {"None", "False", "True"}

\* self._clean_flag = clean or False
CleanFlag(clean) == clean = "True"

\* `not x` for an index_type or a server address: None, a missing key and ""
\* are falsy.
Falsy(x) == x.tag # "str" \/ x.str = ""

Raised(exception) == [outcome |-> exception, class |-> "none"]
Constructed(class) == [outcome |-> "returned", class |-> class]

\* index_type == IndexType.<name>, once the member is known to exist
IsTag(index_type, name) == index_type.str = IndexType[name]

\* The branch for the external variant: outside clean mode the address is
\* read and must be there; a server_address that is still None raises; then
\* ExternalIndexProcessor(server_address=...) is called, whose __init__ also
\* requires api_key and user.
ExternalBranch(server_address, clean) ==
    IF ~CleanFlag(clean) /\ Falsy(server_address) THEN Raised("ValueError")
    ELSE IF CleanFlag(clean) THEN Raised("ValueError")
    ELSE Raised("TypeError")

\* init_index_processor, branch by branch.
InitIndexProcessorResult(index_type, server_address, clean) ==
    IF Falsy(index_type) THEN Raised("ValueError")
    ELSE IF IsTag(index_type, "PARAGRAPH_INDEX") THEN Constructed("ParagraphIndexProcessor")
    ELSE IF IsTag(index_type, "QA_INDEX") THEN Constructed("QAIndexProcessor")
    ELSE IF IsTag(index_type, "PARENT_CHILD_INDEX") THEN Constructed("ParentChildIndexProcessor")
    ELSE IF ~HasMember("EXTERNAL_INDEX") THEN Raised("AttributeError")
    ELSE IF IsTag(index_type, "EXTERNAL_INDEX") THEN ExternalBranch(server_address, clean)
    ELSE Raised("ValueError")

FactoryInit ==
    /\ fa_index_type \in IndexTypeArguments
    /\ fa_server_address \in ServerAddressArguments
    /\ fa_clean \in CleanArguments
    /\ fa_status = "new"
    /\ fa_result = [outcome |-> "none", class |-> "none"]
    /\ InsertIdle
    /\ SearchIdle
    /\ BootstrapIdle
    /\ SplitterIdle
    /\ ExternalIdle
    /\ MarkdownIdle
    /\ DeleteIdle
    /\ ProcessorIdle
    /\ ResplitIdle
    /\ LifecycleIdle
    /\ SchemaIdle
    /\ SharedIdle
    /\ SparseIdle

\* IndexProcessorFactory(index_type, config_options, clean).init_index_processor()
InitIndexProcessor ==
    /\ fa_status = "new"
    /\ fa_status' = "done"
    /\ fa_result' = InitIndexProcessorResult(fa_index_type, fa_server_address, fa_clean)
    /\ UNCHANGED <<fa_index_type, fa_server_address, fa_clean>>
    /\ UNCHANGED notFa

FactoryNext == InitIndexProcessor

SpecFactory == FactoryInit /\ [][FactoryNext]_vars

(* Claims about the factory *)

\* The tag of the external variant; IndexType defines no member for it.
ExternalTag == Str("external_model")

\* Every tag the program has: the values of IndexType and the external tag.
DefinedTags == { Str(IndexType[name]) : name \in DOMAIN IndexType } \cup {ExternalTag}

\* C17: init_index_processor fails with a ValueError, and constructs no
\* processor, whenever the index type is None or empty or is not one of the
\* supported tags.
C17_BadTagIsValueError ==
    (fa_status = "done" /\ fa_index_type \notin DefinedTags) =>
        fa_result = Raised("ValueError")

\* C18: for the external variant a missing server address fails construction
\* exactly outside clean mode: there it is a ValueError, and in clean mode
\* the processor is constructed without a server address.
C18_ServerAddressUnlessClean ==
    (fa_status = "done" /\ fa_index_type = ExternalTag /\ Falsy(fa_server_address)) =>
        IF CleanFlag(fa_clean)
        THEN fa_result = Constructed("ExternalIndexProcessor")
        ELSE fa_result = Raised("ValueError")

\* The processor class each tag stands for.
VariantOf(tag) ==
    IF tag = Str("text_model") THEN "ParagraphIndexProcessor"
    ELSE IF tag = Str("qa_model") THEN "QAIndexProcessor"
    ELSE IF tag = Str("hierarchical_model") THEN "ParentChildIndexProcessor"
    ELSE IF tag = Str("custom_text_model") THEN "CustomParagraphIndexProcessor"
    ELSE "ExternalIndexProcessor"

\* C19: each tag the program defines (text_model, qa_model,
\* hierarchical_model, custom_text_model and the external tag) selects its
\* own variant: with a server address given and outside clean mode,
\* init_index_processor returns a processor of the matching class.
C19_EveryTagSelectsItsVariant ==
    ( /\ fa_status = "done"
      /\ fa_index_type \in DefinedTags
      /\ ~Falsy(fa_server_address)
      /\ ~CleanFlag(fa_clean) )
    => fa_result = Constructed(VariantOf(fa_index_type))

------------------------------------------------------------------------------
(* MilvusVector.create, add_texts and delete on one collection name *)

\* Bound: the calls made on the collection name.
MaxLifecycleCalls == 4

\* One entry of the log of calls: what was called, whether it sent an insert
\* to the store, and whether the store had the collection at that moment.
Called(name, inserted, existed) ==
    [name |-> name, inserted |-> inserted, existed |-> existed]

\* create_collection by a caller on its own: with the flag set it returns at
\* once; otherwise it sends client.create_collection unless has_collection.
SendsCreateCollection == ~lc_cache /\ ~lc_exists

LifecycleInit ==
    /\ lc_exists \in BOOLEAN
    /\ lc_cache = FALSE
    /\ lc_log = <<>>
    /\ lc_creates = 0
    /\ InsertIdle
    /\ SearchIdle
    /\ BootstrapIdle
    /\ SplitterIdle
    /\ ExternalIdle
    /\ MarkdownIdle
    /\ DeleteIdle
    /\ ProcessorIdle
    /\ FactoryIdle
    /\ ResplitIdle
    /\ SchemaIdle
    /\ SharedIdle
    /\ SparseIdle

\* MilvusVector.create(texts, embeddings) with texts: create_collection, which
\* leaves the flag set on every path that reaches its end, then add_texts,
\* which sends the records to the store.
Create ==
    /\ Len(lc_log) < MaxLifecycleCalls
    /\ lc_creates' = lc_creates + (IF SendsCreateCollection THEN 1 ELSE 0)
    /\ lc_exists' = (lc_exists \/ SendsCreateCollection)
    /\ lc_cache' = TRUE
    /\ lc_log' = Append(lc_log, Called("create", TRUE, lc_exists \/ SendsCreateCollection))
    /\ UNCHANGED notLc

\* MilvusVector.add_texts(documents, embeddings) with documents.
AddTexts ==
    /\ Len(lc_log) < MaxLifecycleCalls
    /\ lc_log' = Append(lc_log, Called("add_texts", TRUE, lc_exists))
    /\ UNCHANGED <<lc_exists, lc_cache, lc_creates>>
    /\ UNCHANGED notLc

\* MilvusVector.delete(): the collection is dropped when the store has it; the
\* Redis flag is not touched.
DeleteCollection ==
    /\ Len(lc_log) < MaxLifecycleCalls
    /\ lc_exists' = FALSE
    /\ lc_log' = Append(lc_log, Called("delete", FALSE, lc_exists))
    /\ UNCHANGED <<lc_cache, lc_creates>>
    /\ UNCHANGED notLc

\* redis_client.set(key, 1, ex=3600): the flag is dropped after an hour.
FlagExpires ==
    /\ lc_cache
    /\ lc_cache' = FALSE
    /\ UNCHANGED <<lc_exists, lc_log, lc_creates>>
    /\ UNCHANGED notLc

LifecycleNext ==
    \/ Create
    \/ AddTexts
    \/ DeleteCollection
    \/ FlagExpires

SpecLifecycle == LifecycleInit /\ [][LifecycleNext]_vars

(* Claims about the life of a collection *)

\* C21: whenever create() sends an insert to the store, the collection is in
\* the store at that moment; in particular a create() that follows delete()
\* while the cached flag has not expired creates the collection again before
\* it inserts.
C21_CreateInsertsIntoCollection ==
    \A i \in DOMAIN lc_log :
        (lc_log[i].name = "create" /\ lc_log[i].inserted) => lc_log[i].existed

------------------------------------------------------------------------------
(* MilvusVector.create_collection: the schema and the index parameters *)

\* Bounds: the documents of a call and the dimension of their dense vectors.
MaxSchemaDocs == 2
MaxDim == 4

\* An optional list argument: None, the empty list, or one entry per document.
ListArguments == {NoList} \cup { SomeList([k \in 1..n |-> k]) : n \in 0..MaxSchemaDocs }

\* Field (core/rag/datasource/vdb/field.py)
Field ==
    [CONTENT_KEY |-> "page_content", METADATA_KEY |-> "metadata", VECTOR |-> "vector",
     SPARSE_VECTOR |-> "sparse_vector", PRIMARY_KEY |-> "id"]

\* FieldSchema(name, ...): a field, and the dimension of a dense vector field.
FieldSchema(name, dim) == [name |-> name, dim |-> dim]

\* fields: metadata if metadatas, the text, the primary key, the dense
\* vector, and the sparse vector if sparse_embeddings and len(...) > 0.
SchemaFields(dim, metadatas, sparse_embeddings) ==
    (IF Truthy(metadatas) THEN <<FieldSchema(Field.METADATA_KEY, 0)>> ELSE <<>>)
    \o <<FieldSchema(Field.CONTENT_KEY, 0), FieldSchema(Field.PRIMARY_KEY, 0),
         FieldSchema(Field.VECTOR, dim)>>
    \o (IF Truthy(sparse_embeddings) /\ Len(sparse_embeddings.items) > 0
        THEN <<FieldSchema(Field.SPARSE_VECTOR, 0)>> ELSE <<>>)

\* list.remove(x)
RECURSIVE Remove(_, _)
Remove(l, x) ==
    IF l = <<>> THEN <<>>
    ELSE IF l[1] = x THEN Tail(l)
    ELSE <<l[1]>> \o Remove(Tail(l), x)

\* index_params_obj: add_index for the dense field, then for the sparse field.
IndexedFields == <<Field.VECTOR, Field.SPARSE_VECTOR>>

SchemaInit ==
    /\ sc_dim \in 1..MaxDim
    /\ sc_metadatas \in ListArguments
    /\ sc_sparse \in ListArguments
    /\ sc_status = "idle"
    /\ sc_fields = <<>>
    /\ sc_self_fields = <<>>
    /\ sc_indexes = <<>>
    /\ InsertIdle
    /\ SearchIdle
    /\ BootstrapIdle
    /\ SplitterIdle
    /\ ExternalIdle
    /\ MarkdownIdle
    /\ DeleteIdle
    /\ ProcessorIdle
    /\ FactoryIdle
    /\ ResplitIdle
    /\ LifecycleIdle
    /\ SharedIdle
    /\ SparseIdle

\* create_collection when the flag is unset and the store has no collection:
\* the schema and the index parameters it sends with client.create_collection.
CreateSchema ==
    /\ sc_status = "idle"
    /\ LET fields == SchemaFields(sc_dim, sc_metadatas, sc_sparse)
       IN /\ sc_fields' = fields
          /\ sc_self_fields' = Remove([i \in DOMAIN fields |-> fields[i].name],
                                      Field.PRIMARY_KEY)
    /\ sc_indexes' = IndexedFields
    /\ sc_status' = "created"
    /\ UNCHANGED <<sc_dim, sc_metadatas, sc_sparse>>
    /\ UNCHANGED notSc

SchemaNext == CreateSchema

SpecSchema == SchemaInit /\ [][SchemaNext]_vars

(* Claims about the schema *)

\* The names of the fields of the schema.
SchemaNames == { sc_fields[i].name : i \in DOMAIN sc_fields }

\* C26: every index create_collection declares is on a field of the schema it
\* creates: the sparse-vector field is in the schema exactly when sparse
\* embeddings were supplied, and the inverted index on it is declared only
\* when the field is in the schema.
C26_IndexesOnSchemaFields ==
    sc_status = "created" =>
        /\ \A i \in DOMAIN sc_indexes : sc_indexes[i] \in SchemaNames
        /\ Field.SPARSE_VECTOR \in SchemaNames <=> Truthy(sc_sparse)

------------------------------------------------------------------------------
(* One ExternalIndexProcessor, extract and transform for several documents *)

\* Bound: the source documents that are processed on the one instance.
NumSources == 3

Sources == 1..NumSources

\* The response of the workflow service for a source document: one chunk,
\* which carries the number of the document.
SourceResponse(src) ==
    [has_data |-> TRUE, has_outputs |-> TRUE, other_outputs |-> FALSE, has_result |-> TRUE,
     has_documents |-> TRUE,
     documents |-> <<[page_content |-> Str(ToStr(src)), metadata |-> Absent]>>]

\* transform has not been called for the source document.
NotCalled == [called |-> FALSE, extracted |-> FALSE, value |-> NoneValue]

SharedInit ==
    /\ tw_document = NoneValue
    /\ tw_returned = [src \in Sources |-> NoneValue]
    /\ tw_transformed = [src \in Sources |-> NotCalled]
    /\ InsertIdle
    /\ SearchIdle
    /\ BootstrapIdle
    /\ SplitterIdle
    /\ ExternalIdle
    /\ MarkdownIdle
    /\ DeleteIdle
    /\ ProcessorIdle
    /\ FactoryIdle
    /\ ResplitIdle
    /\ LifecycleIdle
    /\ SchemaIdle
    /\ SparseIdle

\* extract for a source document: the documents of the response are kept in
\* self.document and returned to the caller.
ExtractSource(src) ==
    /\ tw_returned[src].tag = "None"
    /\ tw_document' = IF OutputsTruthy(SourceResponse(src))
                      THEN ExtractValue(SourceResponse(src)) ELSE tw_document
    /\ tw_returned' = [tw_returned EXCEPT ![src] = ExtractValue(SourceResponse(src))]
    /\ UNCHANGED tw_transformed
    /\ UNCHANGED notTw

\* transform for a source document, given what extract returned for it (or,
\* before its extract, any list): documents = self.document; return documents
TransformSource(src) ==
    /\ ~tw_transformed[src].called
    /\ tw_transformed' = [tw_transformed EXCEPT ![src] =
                             [called |-> TRUE, extracted |-> tw_returned[src].tag = "list",
                              value |-> tw_document]]
    /\ UNCHANGED <<tw_document, tw_returned>>
    /\ UNCHANGED notTw

SharedNext ==
    \/ \E src \in Sources : ExtractSource(src)
    \/ \E src \in Sources : TransformSource(src)

SpecShared == SharedInit /\ [][SharedNext]_vars

(* Claims about one processor used for several documents *)

\* C27: on one ExternalIndexProcessor, however the extract and transform
\* calls for different source documents interleave, transform given the
\* documents extracted from a source document returns the chunks of that
\* document and never those of another; and transform called before any
\* extract does not return None.
C27_TransformReturnsOwnChunks ==
    \A src \in Sources :
        tw_transformed[src].called =>
            /\ tw_transformed[src].value.tag = "list"
            /\ tw_transformed[src].extracted =>
                  tw_transformed[src].value = ExtractValue(SourceResponse(src))

------------------------------------------------------------------------------
(* MilvusVector._get_sparse_embeddings and the sparse vector of add_texts *)

\* Bounds: sparse_dim (250002 unless the model information gives another),
\* the weights (in tenths) and the term groups of a text.
SparseDim == 3
MaxWeight == 2
MaxGroups == 2

Dimensions == 0..(SparseDim - 1)

\* A term group: a mapping from some of the indexes to their weights.
TermGroups == UNION { [S -> 1..MaxWeight] : S \in SUBSET Dimensions }

TermGroupLists == UNION { [1..n -> TermGroups] : n \in 1..MaxGroups }

\* indices = [int(k) for k in sparse_vec]: iterating a mapping gives its keys.
SparseIndices(sparse_vec) == DOMAIN sparse_vec

\* values = np.array(list(sparse_vec), dtype=np.float64): list() of a mapping
\* is the list of its keys, so the value at each position is the key there.
SparseValues(sparse_vec) == [k \in DOMAIN sparse_vec |-> k]

\* csr_array((values, (row_indices, indices)), shape=(1, sparse_dim))
CsrArray(values, indices) ==
    [i \in Dimensions |-> IF i \in indices THEN values[i] ELSE 0]

\* stack_sparse_embeddings(sparsest).tocsr(): one row per term group.
SparseEmbedding(groups) ==
    [g \in DOMAIN groups |-> CsrArray(SparseValues(groups[g]), SparseIndices(groups[g]))]

\* rows, cols = m.nonzero(); for row, col in zip(rows, cols):
\* sparse_vector[int(col)] = float(m[row, col]): for a column the last row
\* with an entry there stays.
SparseVector(m) ==
    LET Rows(col) == { row \in DOMAIN m : m[row][col] # 0 }
    IN [col \in { c \in Dimensions : Rows(c) # {} } |-> m[SetMax(Rows(col))][col]]

SparseInit ==
    /\ se_groups \in TermGroupLists
    /\ se_status = "idle"
    /\ se_matrix = <<>>
    /\ se_record = <<>>
    /\ InsertIdle
    /\ SearchIdle
    /\ BootstrapIdle
    /\ SplitterIdle
    /\ ExternalIdle
    /\ MarkdownIdle
    /\ DeleteIdle
    /\ ProcessorIdle
    /\ FactoryIdle
    /\ ResplitIdle
    /\ LifecycleIdle
    /\ SchemaIdle
    /\ SharedIdle

\* _get_sparse_embeddings for the text.
GetSparseEmbeddings ==
    /\ se_status = "idle"
    /\ se_matrix' = SparseEmbedding(se_groups)
    /\ se_status' = "embedded"
    /\ UNCHANGED <<se_groups, se_record>>
    /\ UNCHANGED notSe

\* add_texts: the sparse_vector entry of the record of the text.
SerializeSparseVector ==
    /\ se_status = "embedded"
    /\ se_record' = SparseVector(se_matrix)
    /\ se_status' = "serialized"
    /\ UNCHANGED <<se_groups, se_matrix>>
    /\ UNCHANGED notSe

SparseNext ==
    \/ GetSparseEmbeddings
    \/ SerializeSparseVector

SpecSparse == SparseInit /\ [][SparseNext]_vars

(* Claims about the sparse vectors *)

\* C29: for every term group the service returns as a mapping from index to
\* weight, the row _get_sparse_embeddings builds holds at index i the weight
\* returned for i, not the index itself; and the record add_texts builds maps
\* each of its indexes to the weight a term group gave it.
C29_SparseVectorKeepsWeights ==
    /\ se_status # "idle" =>
          \A g \in DOMAIN se_groups :
              \A i \in DOMAIN se_groups[g] : se_matrix[g][i] = se_groups[g][i]
    /\ se_status = "serialized" =>
          \A col \in DOMAIN se_record :
              \E g \in DOMAIN se_groups :
                  col \in DOMAIN se_groups[g] /\ se_record[col] = se_groups[g][col]

==============================================================================
